---- MODULE Spec2Model ----
(***************************************************************************)
(* News Nest conversation screen: the chunking functions of                *)
(* utils/messageUtils.ts, the history codec (buildConversationHistory and  *)
(* the session hydration of loadSession) and the reveal timers of          *)
(* screens/ConversationScreen.tsx.                                         *)
(*                                                                         *)
(* A JavaScript string is a sequence of one-character strings; indices in  *)
(* the string operators are JavaScript's (0-based), so that the            *)
(* definitions read like the source.                                       *)
(***************************************************************************)
EXTENDS Integers, Sequences, FiniteSets, TLC

VARIABLES
    utilText,       \* the argument text of a messageUtils call
    utilOp,         \* which messageUtils function has been applied to it
    utilChunks,     \* chunks returned so far (splitIntoMessageChunks / getNextChunk)
    utilInitial,    \* getInitialChunk(...).initial
    utilRemaining,  \* getInitialChunk(...).remaining / getNextChunk(...).remaining
    messages,       \* the messages state of the conversation screen
    builtHistory,   \* the history last built by buildConversationHistory
    savedSession,   \* the turns the session store holds (saveChatHistory)
    codecPhase,     \* "live", "saved" or "left" (screen left), "loaded" (session hydrated)
    prevMessages,   \* the messages from which the stored session was built
    prevHydrated,   \* whether those were a hydrated session, untouched since
    exchanges,      \* number of chat requests answered so far
    loads,          \* number of session loads so far
    mounted,        \* whether the conversation screen is mounted
    isLoading,      \* the isLoading state: a chat request is in flight
    requests,       \* the chat requests issued: message, history and promise state
    sends,          \* number of chat requests sent so far
    currentAgent,   \* the currentAgent state
    pendingMessages,            \* the pendingMessages state
    intervals,                  \* the active setInterval timers
    nextIntervalId,             \* the handle the next setInterval returns
    messageQueueIntervalRef,    \* messageQueueIntervalRef.current (0 is null)
    streamingMessage,           \* the streamingMessage state
    streamingIntervalRef,       \* streamingIntervalRef.current (0 is null)
    streams,                    \* number of startStreaming calls so far
    handedToQueue,  \* history: the bubbles handed to the queue loop so far
    cancelledStreams, \* history: ids of messages whose streaming loop was cancelled
    autoSendTimer,  \* whether the timeout of the auto-send effect is pending
    loadingTimeouts, \* the pending timeouts of loadingTimeoutsRef.current (1 and 2)
    loadingMessage, \* the loadingMessage state
    hasEmail,       \* whether the email prop is set
    exits,          \* the exit actions so far: target and progress of each
    saveRequests,   \* history: the histories passed to saveChatHistory
    isSavingHistory, \* the isSavingHistory state
    navigations,    \* history: the navigation callbacks invoked
    currentSessionId, \* the currentSessionId state (0: undefined)
    saveSessionIds, \* history: the session ids passed to saveChatHistory
    sessionsCreated, \* the sessions the session store has created for this screen
    showEnter,      \* App state showEnter
    isAuthenticated, \* App state isAuthenticated
    signInPending,  \* whether onSignedIn of the login screen awaits the profile
    showOnboarding, \* App state showOnboarding
    onboardingStep, \* App state onboardingStep
    selectedBird,   \* App state selectedBird: the id of a bird, or "null"
    showConversation, \* App state showConversation
    showSettings,   \* App state showSettings
    showChatHistory, \* App state showChatHistory
    settingsInitialTab, \* App state settingsInitialTab
    awaitedExits,   \* exits of conversation screens whose save is awaited: the targets
    lastHandler     \* history: the navigation handler invoked last, and from where

utilVars == <<utilText, utilOp, utilChunks, utilInitial, utilRemaining>>

codecAux == <<builtHistory, savedSession, codecPhase, prevMessages, prevHydrated,
              exchanges, loads>>

codecVars == <<messages, codecAux>>

queueVars == <<pendingMessages, messageQueueIntervalRef, handedToQueue>>

streamVars == <<streamingMessage, streamingIntervalRef, streams, cancelledStreams>>

sendVars == <<autoSendTimer, loadingTimeouts, loadingMessage>>

leaveVars == <<hasEmail, exits, saveRequests, isSavingHistory, navigations,
               currentSessionId, saveSessionIds, sessionsCreated>>

uiVars == <<mounted, isLoading, requests, sends, currentAgent, intervals, nextIntervalId,
            queueVars, streamVars, sendVars, leaveVars>>

appVars == <<showEnter, isAuthenticated, signInPending, showOnboarding, onboardingStep,
             selectedBird, showConversation, showSettings, showChatHistory,
             settingsInitialTab, awaitedExits, lastHandler>>

vars == <<utilVars, codecVars, uiVars, appVars>>

(***************************************************************************)
(* Bounds of the model.                                                    *)
(***************************************************************************)
\* number of tokens an argument text of the messageUtils functions is built from
MaxTokens == 5

\* number of chat exchanges of a conversation
MaxExchanges == 2

\* number of times a stored session is loaded again
MaxLoads == 2

(***************************************************************************)
(* JavaScript string primitives.                                           *)
(***************************************************************************)
\* the element of a one-element set.  TheOne({Body : x \in {v}}) is
\* "const x = v; Body": v is evaluated once, before the body
TheOne(S) == CHOOSE r \in S : TRUE

Min(a, b) == IF a <= b THEN a ELSE b

\* the least element of a non-empty set of integers
Least(S) == CHOOSE i \in S : \A j \in S : i <= j

Max(a, b) == IF a >= b THEN a ELSE b

\* \s of a regular expression, and what trim() removes
IsSpace(c) == c \in {" ", "\n", "\t", "\r"}

\* String.prototype.substring(a, b): both clamped to 0..length, swapped if a > b
Substring(s, a, b) ==
    LET a1 == Max(0, Min(a, Len(s)))
        b1 == Max(0, Min(b, Len(s)))
    IN  SubSeq(s, Min(a1, b1) + 1, Max(a1, b1))

\* String.prototype.substring(a)
SubstringFrom(s, a) == Substring(s, a, Len(s))

TrimStart(s) ==
    LET ns == {i \in 1..Len(s) : ~IsSpace(s[i])}
    IN  IF ns = {} THEN <<>>
        ELSE SubSeq(s, CHOOSE i \in ns : \A j \in ns : i <= j, Len(s))

TrimEnd(s) ==
    LET ns == {i \in 1..Len(s) : ~IsSpace(s[i])}
    IN  IF ns = {} THEN <<>>
        ELSE SubSeq(s, 1, CHOOSE i \in ns : \A j \in ns : i >= j)

Trim(s) == TrimStart(TrimEnd(s))

\* whether pat occurs in s at 0-based index i
StartsWithAt(s, pat, i) ==
    /\ i >= 0
    /\ i + Len(pat) <= Len(s)
    /\ \A k \in 1..Len(pat) : s[i + k] = pat[k]

\* String.prototype.indexOf(pat): the first 0-based index, or -1
IndexOf(s, pat) ==
    LET hits == {i \in 0..(Len(s) - Len(pat)) : StartsWithAt(s, pat, i)}
    IN  IF hits = {} THEN -1 ELSE CHOOSE i \in hits : \A j \in hits : i <= j

\* String.prototype.lastIndexOf(pat, from): the last index <= from, or -1
LastIndexOf(s, pat, from) ==
    LET hits == {i \in 0..Min(from, Len(s) - Len(pat)) : StartsWithAt(s, pat, i)}
    IN  IF hits = {} THEN -1 ELSE CHOOSE i \in hits : \A j \in hits : i >= j

RECURSIVE Join(_, _)
\* Array.prototype.join(sep) of an array of strings
Join(parts, sep) ==
    IF Len(parts) = 0 THEN <<>>
    ELSE IF Len(parts) = 1 THEN parts[1]
    ELSE parts[1] \o sep \o Join(Tail(parts), sep)

\* Array.prototype.slice(i)
Slice(arr, i) == SubSeq(arr, i + 1, Len(arr))

\* Array.prototype.map(trim)
MapTrim(arr) == [i \in 1..Len(arr) |-> Trim(arr[i])]

NonEmpty(s) == s # <<>>

(***************************************************************************)
(* utils/messageUtils.ts                                                   *)
(***************************************************************************)
\* targetLength of getInitialChunk
TargetLength == 150

\* the literal chunk size limit of splitIntoMessageChunks
ChunkLimit == 150

\* the character class [.!?]
IsTerminator(c) == c \in {".", "!", "?"}

RECURSIVE MatchSentencesFrom(_, _)
\* the matches of /[^.!?]+[.!?]+/g in s from (1-based) position i on: a match
\* cannot start on a terminator, and needs a terminator after its run of
\* non-terminators, so an unterminated tail matches nothing
MatchSentencesFrom(s, i) ==
    IF i > Len(s) THEN <<>>
    ELSE IF IsTerminator(s[i]) THEN MatchSentencesFrom(s, i + 1)
    ELSE LET terms == {k \in i..Len(s) : IsTerminator(s[k])}
         IN  IF terms = {} THEN <<>>
             ELSE LET t    == CHOOSE k \in terms : \A j \in terms : k <= j
                      rest == {k \in t..Len(s) : ~IsTerminator(s[k])}
                      e    == IF rest = {} THEN Len(s)
                              ELSE (CHOOSE k \in rest : \A j \in rest : k <= j) - 1
                  IN  <<SubSeq(s, i, e)>> \o MatchSentencesFrom(s, e + 1)

\* text.match(/[^.!?]+[.!?]+/g) || [text]
Sentences(text) ==
    LET m == MatchSentencesFrom(text, 1)
    IN  IF m = <<>> THEN <<text>> ELSE m

RECURSIVE InitialChunkLoop(_, _, _)
\* the for loop of getInitialChunk from index i (0-based) on
InitialChunkLoop(sentences, i, initial) ==
    IF i >= Len(sentences) THEN [initial |-> initial, remaining |-> <<>>]
    ELSE LET candidate == initial \o sentences[i + 1]
         IN  IF Len(candidate) <= TargetLength /\ i < 2
             THEN InitialChunkLoop(sentences, i + 1, candidate)
             ELSE [initial |-> initial,
                   remaining |-> Join(Slice(sentences, i), <<" ">>)]

\* a || b || c on numbers: the first that is not 0
FirstTruthy(a, b, c) == IF a # 0 THEN a ELSE IF b # 0 THEN b ELSE c

getInitialChunk(text) ==
    LET loop == InitialChunkLoop(Sentences(text), 0, <<>>)
        splitPoint == FirstTruthy(LastIndexOf(text, <<".", " ">>, TargetLength),
                                  LastIndexOf(text, <<" ">>, TargetLength),
                                  TargetLength)
        res == IF loop.remaining = <<>> /\ Len(text) > TargetLength
               THEN [initial   |-> Substring(text, 0, splitPoint),
                     remaining |-> SubstringFrom(text, splitPoint + 1)]
               ELSE IF loop.remaining = <<>>
               THEN [initial |-> text, remaining |-> <<>>]
               ELSE loop
    IN  [initial |-> Trim(res.initial), remaining |-> Trim(res.remaining)]

getNextChunk(text) ==
    LET sentences == Sentences(text)
    IN  [chunk     |-> Trim(sentences[1]),
         remaining |-> Trim(Join(Slice(sentences, 1), <<" ">>))]

RECURSIVE SplitOnBlankLines(_)
\* text.split(/\n\n+/): the pieces between maximal runs of two or more newlines
SplitOnBlankLines(s) ==
    LET i == IndexOf(s, <<"\n", "\n">>)
    IN  IF i = -1 THEN <<s>>
        ELSE LET rest == {k \in (i + 1)..Len(s) : s[k] # "\n"}
             IN  <<Substring(s, 0, i)>>
                 \o SplitOnBlankLines(IF rest = {} THEN <<>>
                                       ELSE SubSeq(s, Least(rest), Len(s)))

RECURSIVE GroupSentences_NoPairLimit(_, _, _, _)
\* the grouping loop without the close at every second sentence: a chunk is
\* closed on length only
GroupSentences_NoPairLimit(sentences, i, currentChunk, chunks) ==
    IF i >= Len(sentences)
    THEN IF currentChunk # <<>> THEN Append(chunks, Trim(currentChunk)) ELSE chunks
    ELSE LET sentence  == sentences[i + 1]
             candidate == IF currentChunk # <<>>
                          THEN currentChunk \o <<" ">> \o sentence
                          ELSE sentence
         IN  IF Len(candidate) > ChunkLimit
             THEN GroupSentences_NoPairLimit(sentences, i + 1, sentence,
                                 IF currentChunk # <<>>
                                 THEN Append(chunks, Trim(currentChunk))
                                 ELSE chunks)
             ELSE GroupSentences_NoPairLimit(sentences, i + 1, candidate, chunks)

RECURSIVE GroupSentences(_, _, _, _)
\* the grouping loop of splitIntoMessageChunks from index i (0-based) on
GroupSentences(sentences, i, currentChunk, chunks) ==
    IF i >= Len(sentences)
    THEN IF currentChunk # <<>> THEN Append(chunks, Trim(currentChunk)) ELSE chunks
    ELSE LET sentence  == sentences[i + 1]
             candidate == IF currentChunk # <<>>
                          THEN currentChunk \o <<" ">> \o sentence
                          ELSE sentence
         IN  IF Len(candidate) > ChunkLimit
                \/ (currentChunk # <<>> /\ i % 2 = 0 /\ i > 0)
             THEN GroupSentences(sentences, i + 1, sentence,
                                 IF currentChunk # <<>>
                                 THEN Append(chunks, Trim(currentChunk))
                                 ELSE chunks)
             ELSE GroupSentences(sentences, i + 1, candidate, chunks)

\* splitIntoMessageChunks with the paragraph test off by one
\* (paragraphs.length > 2): two paragraphs fall through to sentence grouping
splitIntoMessageChunks_ParagraphsOffByOne(text) ==
    LET paragraphs == SelectSeq(MapTrim(SplitOnBlankLines(text)), NonEmpty)
        sentences  == Sentences(text)
        chunks     == GroupSentences(sentences, 0, <<>>, <<>>)
    IN  IF Len(paragraphs) > 2 THEN paragraphs
        ELSE IF Len(sentences) <= 2 THEN <<Trim(text)>>
        ELSE IF Len(chunks) > 0 THEN chunks
        ELSE <<Trim(text)>>

splitIntoMessageChunks(text) ==
    LET paragraphs == SelectSeq(MapTrim(SplitOnBlankLines(text)), NonEmpty)
        sentences  == Sentences(text)
        chunks     == GroupSentences(sentences, 0, <<>>, <<>>)
    IN  IF Len(paragraphs) > 1 THEN paragraphs
        ELSE IF Len(sentences) <= 2 THEN <<Trim(text)>>
        ELSE IF Len(chunks) > 0 THEN chunks
        ELSE <<Trim(text)>>

(***************************************************************************)
(* Values of the history codec (screens/ConversationScreen.tsx).           *)
(*                                                                         *)
(* A JSON value is a record with a tag t: "null", "num" (n), "str" (s, a   *)
(* string), "arr" (items) or "obj" (kv, a sequence of <<key, value>>).     *)
(* An absent (undefined) string field is the empty string, an absent       *)
(* array field the empty sequence: the code tests both by truthiness.      *)
(***************************************************************************)
Null == [t |-> "null"]

JNum(n) == [t |-> "num", n |-> n]

JStr(s) == [t |-> "str", s |-> s]

JArr(items) == [t |-> "arr", items |-> items]

JObj(kv) == [t |-> "obj", kv |-> kv]

\* the decimal digits of n >= 0
DigitChar(d) == <<"0", "1", "2", "3", "4", "5", "6", "7", "8", "9">>[d + 1]

RECURSIVE NumToString(_)
NumToString(n) ==
    IF n < 10 THEN <<DigitChar(n)>>
    ELSE NumToString(n \div 10) \o <<DigitChar(n % 10)>>

IsDigit(c) == c \in {"0", "1", "2", "3", "4", "5", "6", "7", "8", "9"}

RECURSIVE JsonEscape(_)
\* the characters of a string inside a JSON string literal
JsonEscape(s) ==
    IF s = <<>> THEN <<>>
    ELSE (CASE Head(s) = "\"" -> <<"\\", "\"">>
            [] Head(s) = "\\" -> <<"\\", "\\">>
            [] Head(s) = "\n" -> <<"\\", "n">>
            [] OTHER -> <<Head(s)>>) \o JsonEscape(Tail(s))

JsonQuote(s) == <<"\"">> \o JsonEscape(s) \o <<"\"">>

RECURSIVE JsonStringify(_)
\* JSON.stringify(v)
JsonStringify(v) ==
    CASE v.t = "null" -> <<"n", "u", "l", "l">>
      [] v.t = "num" -> NumToString(v.n)
      [] v.t = "str" -> JsonQuote(v.s)
      [] v.t = "arr" ->
            <<"[">> \o Join([i \in 1..Len(v.items) |-> JsonStringify(v.items[i])], <<",">>)
                    \o <<"]">>
      [] v.t = "obj" ->
            <<"{">> \o Join([i \in 1..Len(v.kv) |->
                               JsonQuote(v.kv[i][1]) \o <<":">> \o JsonStringify(v.kv[i][2])],
                            <<",">>)
                    \o <<"}">>

\* "[CHART]", "[TIMELINE]", "[SCOREBOARD]", "[ARTICLES]"
ChartMarker == <<"[", "C", "H", "A", "R", "T", "]">>

TimelineMarker == <<"[", "T", "I", "M", "E", "L", "I", "N", "E", "]">>

ScoreboardMarker == <<"[", "S", "C", "O", "R", "E", "B", "O", "A", "R", "D", "]">>

ArticlesHeader == <<"[", "A", "R", "T", "I", "C", "L", "E", "S", "]">>

\* the dash literal of the source file: it holds the three UTF-16 units
\* U+00E2 U+20AC U+201D, not the single unit U+2014
SourceDash == <<"<U+00E2>", "<U+20AC>", "<U+201D>">>

\* "[Agent:" and "[tags:" in lower case (both patterns carry the i flag)
AgentPrefix == <<"[", "a", "g", "e", "n", "t", ":">>

TagsPrefix == <<"[", "t", "a", "g", "s", ":">>

HttpPrefix == <<"(", "h", "t", "t", "p", ":", "/", "/">>

HttpsPrefix == <<"(", "h", "t", "t", "p", "s", ":", "/", "/">>

\* lower case of the letters the case-insensitive patterns name
ToLower(c) ==
    CASE c = "A" -> "a" [] c = "G" -> "g" [] c = "E" -> "e" [] c = "N" -> "n"
      [] c = "T" -> "t" [] c = "S" -> "s" [] c = "H" -> "h" [] c = "P" -> "p"
      [] OTHER -> c

\* whether the lower-case pattern pat occurs in s at 0-based index i, ignoring case
StartsWithAtCI(s, pat, i) ==
    /\ i >= 0
    /\ i + Len(pat) <= Len(s)
    /\ \A k \in 1..Len(pat) : ToLower(s[i + k]) = pat[k]

\* the first 0-based index >= from at which character c stands, or -1
IndexOfChar(s, c, from) ==
    LET hits == {i \in from..(Len(s) - 1) : s[i + 1] = c}
    IN  IF hits = {} THEN -1 ELSE Least(hits)

\* whether s from 0-based index i on is whitespace only
OnlySpaceFrom(s, i) == \A k \in (i + 1)..Len(s) : IsSpace(s[k])

(***************************************************************************)
(* Encoding: buildConversationHistory and its formatters.                  *)
(***************************************************************************)
\* one line of formatArticleCardsForLog
ArticleLine(c, n) ==
    LET source == IF c.sourceName # <<>>
                  THEN <<" ">> \o SourceDash \o <<" ">> \o c.sourceName ELSE <<>>
        tags   == IF Len(c.tags) > 0
                  THEN <<" ", "[", "t", "a", "g", "s", ":", " ">>
                       \o Join(c.tags, <<",", " ">>) \o <<"]">>
                  ELSE <<>>
        url    == IF c.url # <<>> THEN <<" ", "(">> \o c.url \o <<")">> ELSE <<>>
    IN  NumToString(n) \o <<".", " ">> \o c.headline \o source \o tags \o url

formatArticleCardsForLog(cards) ==
    Join(<<ArticlesHeader>> \o [i \in 1..Len(cards) |-> ArticleLine(cards[i], i)],
         <<"\n">>)

formatChartForLog(chart) == ChartMarker \o <<"\n">> \o JsonStringify(chart)

formatTimelineForLog(timeline) == TimelineMarker \o <<"\n">> \o JsonStringify(timeline)

formatScoreboardForLog(scoreboard) ==
    ScoreboardMarker \o <<"\n">> \o JsonStringify(scoreboard)

\* textToStore ? `${textToStore}\n\n${block}` : block
AppendBlock(textToStore, block) ==
    IF block = <<>> THEN textToStore
    ELSE IF textToStore # <<>> THEN textToStore \o <<"\n", "\n">> \o block
    ELSE block

\* the text buildConversationHistory stores for an agent message
TextToStore(msg, isFirstChunk) ==
    IF ~isFirstChunk THEN msg.text
    ELSE LET t1 == IF msg.chart # Null
                   THEN AppendBlock(msg.text, formatChartForLog(msg.chart))
                   ELSE msg.text
             t2 == IF msg.timeline # Null
                   THEN AppendBlock(t1, formatTimelineForLog(msg.timeline))
                   ELSE t1
             t3 == IF msg.scoreboard # Null
                   THEN AppendBlock(t2, formatScoreboardForLog(msg.scoreboard))
                   ELSE t2
         IN  IF Len(msg.articleCards) > 0
             THEN AppendBlock(t3, formatArticleCardsForLog(msg.articleCards))
             ELSE t3

\* ModelTurn with the chunks joined without the separating space
ModelTurn_NoSeparator(currentAgentResponse, lastAgentName) ==
    LET combinedResponse == Join(currentAgentResponse, <<>>)
    IN  [role  |-> "model",
         parts |-> <<IF lastAgentName # <<>>
                     THEN combinedResponse
                          \o <<" ", "[", "A", "g", "e", "n", "t", ":", " ">>
                          \o lastAgentName \o <<"]">>
                     ELSE combinedResponse>>]

\* the model turn pushed for the buffered chunks
ModelTurn(currentAgentResponse, lastAgentName) ==
    LET combinedResponse == Join(currentAgentResponse, <<" ">>)
    IN  [role  |-> "model",
         parts |-> <<IF lastAgentName # <<>>
                     THEN combinedResponse
                          \o <<" ", "[", "A", "g", "e", "n", "t", ":", " ">>
                          \o lastAgentName \o <<"]">>
                     ELSE combinedResponse>>]

\* the turn pushed for a user message, with the role of a model turn
UserTurn_AsModel(msg) == [role |-> "model", parts |-> <<msg.text>>]

\* the turn pushed for a user message
UserTurn(msg) == [role |-> "user", parts |-> <<msg.text>>]

\* the id of the synthetic welcome message
WelcomeId == <<"1">>

\* the test for the welcome message, never true
IsWelcomeMessage_Never(msg) == FALSE

\* msg.id === '1' && msg.type === 'agent'
IsWelcomeMessage(msg) == msg.id = WelcomeId /\ msg.type = "agent"

RECURSIVE BuildHistoryLoop(_, _, _, _, _)
\* the for loop of buildConversationHistory from message i (1-based) on, and the
\* flush after it
BuildHistoryLoop(msgs, i, history, currentAgentResponse, lastAgentName) ==
    IF i > Len(msgs)
    THEN IF Len(currentAgentResponse) > 0
         THEN Append(history, ModelTurn(currentAgentResponse, lastAgentName))
         ELSE history
    ELSE LET msg == msgs[i]
         IN  IF IsWelcomeMessage(msg)
             THEN BuildHistoryLoop(msgs, i + 1, history, currentAgentResponse, lastAgentName)
             ELSE IF msg.isRouting
             THEN BuildHistoryLoop(msgs, i + 1, history, currentAgentResponse, lastAgentName)
             ELSE IF msg.type = "user"
             THEN BuildHistoryLoop(msgs, i + 1,
                      (IF Len(currentAgentResponse) > 0
                       THEN Append(history, ModelTurn(currentAgentResponse, lastAgentName))
                       ELSE history)
                          \o <<UserTurn(msg)>>,
                      <<>>, lastAgentName)
             ELSE IF msg.type = "agent" /\ msg.text # <<>>
             THEN BuildHistoryLoop(msgs, i + 1, history,
                      Append(currentAgentResponse,
                             TextToStore(msg, Len(currentAgentResponse) = 0)),
                      IF msg.agentName # <<>> THEN msg.agentName ELSE lastAgentName)
             ELSE BuildHistoryLoop(msgs, i + 1, history, currentAgentResponse, lastAgentName)

buildConversationHistory(msgs) == BuildHistoryLoop(msgs, 1, <<>>, <<>>, <<>>)

(***************************************************************************)
(* Decoding: the helpers of loadSession.                                   *)
(***************************************************************************)
RECURSIVE SplitOnChar(_, _)
\* String.prototype.split(c) for a one-character separator
SplitOnChar(s, c) ==
    LET i == IndexOfChar(s, c, 0)
    IN  IF i = -1 THEN <<s>>
        ELSE <<Substring(s, 0, i)>> \o SplitOnChar(SubstringFrom(s, i + 1), c)

\* a match of /<prefix>\s*([^\]]+)\]\s*$/i starting at 0-based index p
BracketTailAt(s, prefix, p) ==
    LET close == IndexOfChar(s, "]", p + Len(prefix))
    IN  /\ StartsWithAtCI(s, prefix, p)
        /\ close # -1
        /\ close - (p + Len(prefix)) >= 1
        /\ OnlySpaceFrom(s, close + 1)

\* the leftmost match of /<prefix>\s*([^\]]+)\]\s*$/i: its start, or -1
BracketTailIndex(s, prefix) ==
    LET hits == {p \in 0..(Len(s) - 1) : BracketTailAt(s, prefix, p)}
    IN  IF hits = {} THEN -1 ELSE Least(hits)

\* capture group 1 of that match: \s* takes the leading whitespace, but gives
\* one character back when the bracket holds whitespace only
BracketTailGroup(s, prefix, p) ==
    LET close   == IndexOfChar(s, "]", p + Len(prefix))
        content == Substring(s, p + Len(prefix), close)
    IN  IF TrimStart(content) # <<>> THEN TrimStart(content)
        ELSE <<content[Len(content)]>>

\* text.match(/\[Agent:\s*([^\]]+)\]\s*$/i): match[1].trim(), or undefined
MatchAgentName(text) ==
    LET p == BracketTailIndex(text, AgentPrefix)
    IN  IF p = -1 THEN <<>> ELSE Trim(BracketTailGroup(text, AgentPrefix, p))

\* text.replace(/\s*\[Agent:\s*[^\]]+\]\s*$/i, '').trim()
StripAgentTag(text) ==
    LET p == BracketTailIndex(text, AgentPrefix)
    IN  IF p = -1 THEN Trim(text) ELSE Trim(Substring(text, 0, p))

RECURSIVE ExtractJsonScan(_, _, _, _, _, _)
\* the for loop of extractJsonObject from 0-based index i on; NoJson is null
ExtractJsonScan(text, i, braceCount, inString, escapeNext, jsonStart) ==
    IF i >= Len(text) THEN [found |-> FALSE, json |-> <<>>, endIdx |-> -1]
    ELSE LET char == text[i + 1]
         IN  IF escapeNext
             THEN ExtractJsonScan(text, i + 1, braceCount, inString, FALSE, jsonStart)
             ELSE IF char = "\\"
             THEN ExtractJsonScan(text, i + 1, braceCount, inString, TRUE, jsonStart)
             ELSE IF char = "\""
             THEN ExtractJsonScan(text, i + 1, braceCount, ~inString, FALSE, jsonStart)
             ELSE IF inString
             THEN ExtractJsonScan(text, i + 1, braceCount, inString, FALSE, jsonStart)
             ELSE IF char = "{"
             THEN ExtractJsonScan(text, i + 1, braceCount + 1, inString, FALSE,
                                  IF jsonStart = -1 THEN i ELSE jsonStart)
             ELSE IF char = "}"
             THEN IF braceCount - 1 = 0 /\ jsonStart # -1
                  THEN [found  |-> TRUE,
                        json   |-> Substring(text, jsonStart, i + 1),
                        endIdx |-> i + 1]
                  ELSE ExtractJsonScan(text, i + 1, braceCount - 1, inString, FALSE,
                                       jsonStart)
             ELSE ExtractJsonScan(text, i + 1, braceCount, inString, FALSE, jsonStart)

extractJsonObject(text, startIdx) ==
    ExtractJsonScan(text, startIdx, 0, FALSE, FALSE, -1)

(***************************************************************************)
(* The structured payloads of the model: charts, timelines, scoreboards.   *)
(***************************************************************************)
\* {"t":"b","d":[{"l":"a}","v":1}]}: a nested object, a quoted closing brace
Chart1 ==
    JObj(<< <<<<"t">>, JStr(<<"b">>)>>,
            <<<<"d">>, JArr(<<JObj(<< <<<<"l">>, JStr(<<"a", "}">>)>>,
                                      <<<<"v">>, JNum(1)>> >>)>>)>> >>)

\* {"t":"\"{\\"}: an escaped quote, a quoted opening brace, an escaped backslash
Chart2 == JObj(<< <<<<"t">>, JStr(<<"\"", "{", "\\">>)>> >>)

\* {"e":[{"d":"x"}]}
Timeline1 == JObj(<< <<<<"e">>, JArr(<<JObj(<< <<<<"d">>, JStr(<<"x">>)>> >>)>>)>> >>)

\* {"g":{"h":2}}
Scoreboard1 == JObj(<< <<<<"g">>, JObj(<< <<<<"h">>, JNum(2)>> >>)>> >>)

Charts == {Chart1, Chart2}

Timelines == {Timeline1}

Scoreboards == {Scoreboard1}

\* JSON.parse(json) on the payloads of the model: the value whose JSON text
\* this is, or a SyntaxError (ok = FALSE)
JsonParse(json) ==
    LET vs == {v \in Charts \cup Timelines \cup Scoreboards : JsonStringify(v) = json}
    IN  IF vs = {} THEN [ok |-> FALSE, value |-> Null]
        ELSE [ok |-> TRUE, value |-> CHOOSE v \in vs : TRUE]

\* the leading whitespace of s (afterJson.match(/^\s*/)[0])
LeadingSpace(s) == Len(s) - Len(TrimStart(s))

\* one block of parseSavedVisualizations: the block after marker is parsed and
\* removed from cleaned
ParseVizBlock(cleaned, marker) ==
    LET markerIdx   == IndexOf(cleaned, marker)
        afterMarker == SubstringFrom(cleaned, markerIdx + Len(marker))
        newlineIdx  == IndexOfChar(afterMarker, "\n", 0)
        jsonStartIdx == markerIdx + Len(marker) + newlineIdx + 1
        jsonResult  == extractJsonObject(cleaned, jsonStartIdx)
        parsed      == JsonParse(jsonResult.json)
        blockEnd    == jsonResult.endIdx
        removeEnd   == blockEnd + LeadingSpace(SubstringFrom(cleaned, blockEnd))
    IN  IF markerIdx = -1 \/ newlineIdx = -1 \/ ~jsonResult.found
        THEN [cleaned |-> cleaned, value |-> Null]
        ELSE IF parsed.ok
        THEN [cleaned |-> Trim(Trim(Substring(cleaned, 0, markerIdx))
                               \o (IF removeEnd < Len(cleaned)
                                   THEN SubstringFrom(cleaned, removeEnd) ELSE <<>>)),
              value   |-> parsed.value]
        ELSE [cleaned |-> Trim(Trim(Substring(cleaned, 0, markerIdx))
                               \o (IF blockEnd < Len(cleaned)
                                   THEN SubstringFrom(cleaned, blockEnd) ELSE <<>>)),
              value   |-> Null]

parseSavedVisualizations(input) ==
    IF input = <<>>
    THEN [cleaned |-> input, chart |-> Null, timeline |-> Null, scoreboard |-> Null]
    ELSE TheOne({
         TheOne({
         TheOne({
            [cleaned |-> b.cleaned, chart |-> c.value, timeline |-> t.value,
             scoreboard |-> b.value]
         : b \in {ParseVizBlock(t.cleaned, ScoreboardMarker)}})
         : t \in {ParseVizBlock(c.cleaned, TimelineMarker)}})
         : c \in {ParseVizBlock(input, ChartMarker)}})

\* line.match(/^\d+\.\s*(.*)$/): the text after the number prefix, or the line
StripNumberPrefix(line) ==
    LET nonDigits == {i \in 0..(Len(line) - 1) : ~IsDigit(line[i + 1])}
        d == IF nonDigits = {} THEN Len(line) ELSE Least(nonDigits)
    IN  IF d >= 1 /\ d < Len(line) /\ line[d + 1] = "."
        THEN TrimStart(SubstringFrom(line, d + 1))
        ELSE line

\* a match of /\((https?:\/\/[^)]+)\)\s*$/i starting at 0-based index p
UrlTailAt(s, p) ==
    LET scheme == IF StartsWithAtCI(s, HttpsPrefix, p) THEN Len(HttpsPrefix)
                  ELSE IF StartsWithAtCI(s, HttpPrefix, p) THEN Len(HttpPrefix)
                  ELSE 0
        close  == IndexOfChar(s, ")", p + 1)
    IN  /\ scheme > 0
        /\ close # -1
        /\ close - (p + scheme) >= 1
        /\ OnlySpaceFrom(s, close + 1)

UrlTailIndex(s) ==
    LET hits == {p \in 0..(Len(s) - 1) : UrlTailAt(s, p)}
    IN  IF hits = {} THEN -1 ELSE Least(hits)

\* String.prototype.replace(sub, ''): the first occurrence of sub removed
RemoveFirst(s, sub) ==
    LET i == IndexOf(s, sub)
    IN  IF i = -1 THEN s ELSE Substring(s, 0, i) \o SubstringFrom(s, i + Len(sub))

\* tagsMatch[1].split(',').map(t => t.trim()).filter(Boolean)
ParseTagList(group) == SelectSeq(MapTrim(SplitOnChar(group, ",")), NonEmpty)

\* the card parsed from one line of a saved [ARTICLES] block
ParseArticleLine(line) ==
    LET content      == StripNumberPrefix(line)
        urlIdx       == UrlTailIndex(content)
        url          == IF urlIdx = -1 THEN <<>>
                        ELSE Trim(Substring(content, urlIdx + 1,
                                            IndexOfChar(content, ")", urlIdx + 1)))
        contentNoUrl == IF urlIdx = -1 THEN content
                        ELSE Trim(RemoveFirst(content, SubstringFrom(content, urlIdx)))
        tagsIdx      == BracketTailIndex(contentNoUrl, TagsPrefix)
        tags         == IF tagsIdx = -1 THEN <<>>
                        ELSE ParseTagList(BracketTailGroup(contentNoUrl, TagsPrefix, tagsIdx))
        contentNoTags == IF tagsIdx = -1 THEN contentNoUrl
                         ELSE Trim(RemoveFirst(contentNoUrl,
                                               SubstringFrom(contentNoUrl, tagsIdx)))
        dashIdx      == IndexOf(contentNoTags, SourceDash)
    IN  [headline   |-> IF dashIdx = -1 THEN contentNoTags
                        ELSE Trim(Substring(contentNoTags, 0, dashIdx)),
         sourceName |-> IF dashIdx = -1 THEN <<>>
                        ELSE Trim(SubstringFrom(contentNoTags, dashIdx + 1)),
         url        |-> url,
         tags       |-> tags]

HasHeadline(card) == card.headline # <<>>

parseSavedArticlesBlock(input) ==
    LET idx == IndexOf(input, ArticlesHeader)
    IN  IF input = <<>> \/ idx = -1 THEN [cleaned |-> input, cards |-> <<>>]
        ELSE TheOne({
                [cleaned |-> TrimEnd(Substring(input, 0, idx)),
                 cards   |-> SelectSeq([i \in 1..Len(lines) |-> ParseArticleLine(lines[i])],
                                       HasHeadline)]
             : lines \in {SelectSeq(MapTrim(SplitOnChar(
                                       SubstringFrom(input, idx + Len(ArticlesHeader)),
                                       "\n")), NonEmpty)}})

(***************************************************************************)
(* Messages.  An id is a tuple standing for the id string: <<"1">> the     *)
(* welcome message, <<"user", n>> and <<"agent", n>> / <<"agent", n, i>>   *)
(* the messages of request n (n stands for Date.now()), and                *)
(* <<"user", idx, 0, "t">> / <<"agent", idx, chunkIdx, "t">> the messages  *)
(* hydrated from turn idx.                                                 *)
(***************************************************************************)
Message(id, type, text, agentName) ==
    [id |-> id, type |-> type, text |-> text, agentName |-> agentName,
     isRouting |-> FALSE, hasArticleReference |-> FALSE, articleCards |-> <<>>,
     chart |-> Null, timeline |-> Null, scoreboard |-> Null]

\* the default agent name of the screen (selectedBird.agentName)
DefaultAgentName == <<"P", "o">>

\* the welcome message the messages state starts with
WelcomeMessage == Message(WelcomeId, "agent", <<"h", "i">>, DefaultAgentName)

\* data.articles.map(a => ({headline, url, sourceName, tags}))
ArticleCards(articles) ==
    [i \in 1..Len(articles) |->
        [headline   |-> articles[i].headline,
         sourceName |-> articles[i].source_name,
         url        |-> articles[i].url,
         tags       |-> articles[i].tags]]

\* the bubbles handleSendMessage builds from the response data of request n
ResponseBubbles(data, n) ==
    LET agentName == IF data.agent # <<>> THEN data.agent ELSE <<"A", "g", "e", "n", "t">>
        chunks    == splitIntoMessageChunks(data.response)
    IN  IF Len(chunks) > 1
        THEN [index \in 1..Len(chunks) |->
                [id |-> <<"agent", n, index - 1>>,
                 type |-> "agent",
                 text |-> chunks[index],
                 agentName |-> agentName,
                 isRouting |-> FALSE,
                 hasArticleReference |-> data.has_article_reference /\ index = 1,
                 articleCards |-> IF index = 1 THEN ArticleCards(data.articles) ELSE <<>>,
                 chart |-> IF index = 1 THEN data.chart ELSE Null,
                 timeline |-> IF index = 1 THEN data.timeline ELSE Null,
                 scoreboard |-> IF index = 1 THEN data.scoreboard ELSE Null]]
        ELSE <<[id |-> <<"agent", n>>,
                type |-> "agent",
                text |-> chunks[1],
                agentName |-> agentName,
                isRouting |-> FALSE,
                hasArticleReference |-> data.has_article_reference,
                articleCards |-> ArticleCards(data.articles),
                chart |-> data.chart,
                timeline |-> data.timeline,
                scoreboard |-> data.scoreboard]>>

\* the bubbles of a model turn with its chart attached to every chunk
HydratedBubbles_ChartOnAll(idx, name, vizParsed, parsed, chunks) ==
    [k \in 1..Len(chunks) |->
        [id |-> <<"agent", idx, k - 1, "t">>,
         type |-> "agent",
         text |-> chunks[k],
         agentName |-> name,
         isRouting |-> FALSE,
         hasArticleReference |-> FALSE,
         articleCards |-> IF k = 1 THEN parsed.cards ELSE <<>>,
         chart |-> vizParsed.chart,
         timeline |-> IF k = 1 THEN vizParsed.timeline ELSE Null,
         scoreboard |-> IF k = 1 THEN vizParsed.scoreboard ELSE Null]]

\* the bubbles loadSession builds from the chunks of the model turn at index idx
HydratedBubbles(idx, name, vizParsed, parsed, chunks) ==
    [k \in 1..Len(chunks) |->
        [id |-> <<"agent", idx, k - 1, "t">>,
         type |-> "agent",
         text |-> chunks[k],
         agentName |-> name,
         isRouting |-> FALSE,
         hasArticleReference |-> FALSE,
         articleCards |-> IF k = 1 THEN parsed.cards ELSE <<>>,
         chart |-> IF k = 1 THEN vizParsed.chart ELSE Null,
         timeline |-> IF k = 1 THEN vizParsed.timeline ELSE Null,
         scoreboard |-> IF k = 1 THEN vizParsed.scoreboard ELSE Null]]

\* agentName || defaultAgentName: the last known name is not used
HydratedAgentName_NoCarry(agentName, lastAgentNameLocal) ==
    IF agentName # <<>> THEN agentName ELSE DefaultAgentName

\* agentName || lastAgentNameLocal || defaultAgentName
HydratedAgentName(agentName, lastAgentNameLocal) ==
    IF agentName # <<>> THEN agentName
    ELSE IF lastAgentNameLocal # <<>> THEN lastAgentNameLocal
    ELSE DefaultAgentName

\* the messages loadSession builds from the model turn h at index idx
HydrateModelTurn(text, idx, lastAgentNameLocal) ==
    TheOne({
    TheOne({
    TheOne({
    TheOne({
        LET lastName == IF agentName # <<>> THEN agentName ELSE lastAgentNameLocal
            name     == HydratedAgentName(agentName, lastName)
        IN  [loaded |-> HydratedBubbles(idx, name, vizParsed, parsed, chunks),
             lastAgentNameLocal |-> lastName]
    : chunks \in {splitIntoMessageChunks(Trim(parsed.cleaned))}})
    : parsed \in {parseSavedArticlesBlock(vizParsed.cleaned)}})
    : vizParsed \in {parseSavedVisualizations(StripAgentTag(text))}})
    : agentName \in {MatchAgentName(text)}})

RECURSIVE HydrateLoop(_, _, _, _)
\* history.forEach of loadSession from turn idx (0-based) on
HydrateLoop(history, idx, loaded, lastAgentNameLocal) ==
    IF idx >= Len(history) THEN loaded
    ELSE LET h == history[idx + 1]
         IN  IF h.role = "user"
             THEN HydrateLoop(history, idx + 1,
                              Append(loaded, Message(<<"user", idx, 0, "t">>, "user",
                                                     Join(h.parts, <<" ">>), <<>>)),
                              lastAgentNameLocal)
             ELSE TheOne({
                     HydrateLoop(history, idx + 1, loaded \o r.loaded, r.lastAgentNameLocal)
                  : r \in {HydrateModelTurn(Join(h.parts, <<" ">>), idx,
                                             lastAgentNameLocal)}})

\* the loaded array of loadSession
LoadedMessages(history) == HydrateLoop(history, 0, <<>>, <<>>)

(***************************************************************************)
(* The reveal timers of the conversation screen.  An active interval timer *)
(* is a record: its handle (id), its loop ("queue" or "stream") and, for   *)
(* the queue loop, the state of its closure (messagesToAdd, currentIndex). *)
(* The handle 0 stands for null.                                           *)
(***************************************************************************)
NoInterval == 0

\* setInterval(callback, delay) returning the handle id
SetInterval(ivs, id, kind, messagesToAdd) ==
    ivs \cup {[id |-> id, kind |-> kind, messagesToAdd |-> messagesToAdd,
               currentIndex |-> 0]}

\* clearInterval(id): no effect for null or a handle that is not active
ClearInterval(ivs, id) == {t \in ivs : t.id # id}

\* the message queue effect run for a new value of pendingMessages: the cleanup
\* of its previous run, then its body
MessageQueueEffect(ivs, ref, next, pending) ==
    LET cleaned == ClearInterval(ivs, ref)
    IN  IF Len(pending) = 0
        THEN [intervals |-> cleaned, ref |-> NoInterval, next |-> next]
        ELSE [intervals |-> SetInterval(cleaned, next, "queue", pending),
              ref |-> next, next |-> next + 1]

\* streamingMessage === null
NoStream ==
    [on |-> FALSE, id |-> <<>>, agentName |-> <<>>, currentText |-> <<>>,
     remainingText |-> <<>>]

\* the intervals left by the cleanup of the streaming effect, which keeps them all
StreamingEffectCleanup_KeepsInterval(ivs, ref) == ivs

\* the intervals left by the cleanup of the streaming effect
StreamingEffectCleanup(ivs, ref) == ClearInterval(ivs, ref)

\* the streaming effect run for a new value sm of streamingMessage: the cleanup
\* of its previous run, then its body
StreamingEffect(ivs, ref, next, sm) ==
    LET cleaned == StreamingEffectCleanup(ivs, ref)
    IN  IF ~sm.on \/ sm.remainingText = <<>>
        THEN [intervals |-> ClearInterval(cleaned, ref), ref |-> NoInterval, next |-> next]
        ELSE [intervals |-> SetInterval(cleaned, next, "stream", <<>>),
              ref |-> next, next |-> next + 1]

\* msgs.map(msg => ({...msg, text})): the text set on every message
SetMessageText_OnAll(msgs, id, text) ==
    [i \in 1..Len(msgs) |-> [msgs[i] EXCEPT !.text = text]]

\* msgs.map(msg => msg.id === id ? {...msg, text} : msg)
SetMessageText(msgs, id, text) ==
    [i \in 1..Len(msgs) |->
        IF msgs[i].id = id THEN [msgs[i] EXCEPT !.text = text] ELSE msgs[i]]

\* whether the streaming loop is between two reveals of its message
MidReveal(sm, ivs, ref) ==
    /\ sm.on
    /\ sm.remainingText # <<>>
    /\ \E t \in ivs : t.id = ref /\ t.kind = "stream"

\* the sessionId prop of a screen opened on no saved session (undefined)
NoSession == 0

\* the loadingMessage state after construction and at the start of a send
ProcessingQuery == "Processing query..."

\* selectedBird when no bird is selected
NoBird == "null"

\* the state of App after construction
AppStart ==
    /\ showEnter = TRUE
    /\ isAuthenticated = FALSE
    /\ signInPending = FALSE
    /\ showOnboarding = FALSE
    /\ onboardingStep = 1
    /\ selectedBird = NoBird
    /\ showConversation = FALSE
    /\ showSettings = FALSE
    /\ showChatHistory = FALSE
    /\ settingsInitialTab = "profile"
    /\ awaitedExits = <<>>
    /\ lastHandler = [handler |-> "none", from |-> "enter", late |-> FALSE]

\* the screen state after construction, apart from the messages, opened
\* without initialMessage and with an email
UiIdle ==
    /\ autoSendTimer = FALSE
    /\ loadingTimeouts = {}
    /\ loadingMessage = ProcessingQuery
    /\ hasEmail = TRUE
    /\ exits = <<>>
    /\ saveRequests = <<>>
    /\ isSavingHistory = FALSE
    /\ navigations = <<>>
    /\ currentSessionId = NoSession
    /\ saveSessionIds = <<>>
    /\ sessionsCreated = 0
    /\ mounted = TRUE
    /\ isLoading = FALSE
    /\ requests = <<>>
    /\ sends = 0
    /\ currentAgent = DefaultAgentName
    /\ pendingMessages = <<>>
    /\ intervals = {}
    /\ nextIntervalId = 1
    /\ messageQueueIntervalRef = NoInterval
    /\ streamingMessage = NoStream
    /\ streamingIntervalRef = NoInterval
    /\ streams = 0
    /\ handedToQueue = <<>>
    /\ cancelledStreams = {}

(***************************************************************************)
(* Calls of the messageUtils functions on bounded texts.                   *)
(***************************************************************************)
\* number of tokens before and after the long word of a long text
MaxAffixTokens == 1

Tokens == {<<"a">>, <<"a", ".">>, <<" ">>, <<"\n">>, <<"\n", "\n">>, <<"!">>}

TokenTexts(n) ==
    {Join(ts, <<>>) : ts \in UNION {[1..k -> Tokens] : k \in 0..n}}

\* a word as long as the chunk size limit
LongWord == [i \in 1..TargetLength |-> "a"]

\* texts longer than the chunk size limit
LongTexts ==
    {p \o LongWord \o q : p \in TokenTexts(MaxAffixTokens + 1), q \in TokenTexts(MaxAffixTokens)}

\* texts of one short terminated sentence, a separator and a long tail without
\* terminal punctuation: the texts getInitialChunk splits by length
FallbackTexts ==
    {<<"a", t>> \o sp \o LongWord : t \in {".", "!", "?"}, sp \in {<<>>, <<" ">>, <<"\n">>}}

\* a sentence of n characters
SentenceOfLength(n) == [i \in 1..n |-> IF i = n THEN "." ELSE "a"]

\* the lengths of the sentences of the grouping texts: with a sentence of 2
\* characters and a space, 147 reaches the chunk size limit and 148 exceeds it
SentenceLengths == {2, ChunkLimit - 3, ChunkLimit - 2}

\* single paragraphs of three or four sentences, written with or without a
\* space between the sentences
GroupingTexts ==
    {Join([k \in DOMAIN ls |-> SentenceOfLength(ls[k])], sp) :
        ls \in UNION {[1..m -> SentenceLengths] : m \in {3, 4}},
        sp \in {<<>>, <<" ">>}}

Texts == TokenTexts(MaxTokens) \cup LongTexts \cup FallbackTexts \cup GroupingTexts

UtilIdle ==
    /\ utilText = <<>>
    /\ utilOp = "none"
    /\ utilChunks = <<>>
    /\ utilInitial = <<>>
    /\ utilRemaining = <<>>

CodecAuxIdle ==
    /\ builtHistory = <<>>
    /\ savedSession = <<>>
    /\ codecPhase = "live"
    /\ prevMessages = <<>>
    /\ prevHydrated = FALSE
    /\ exchanges = 0
    /\ loads = 0

CodecIdle == messages = <<>> /\ CodecAuxIdle

InitUtil ==
    /\ AppStart
    /\ utilText \in Texts
    /\ utilOp = "none"
    /\ utilChunks = <<>>
    /\ utilInitial = <<>>
    /\ utilRemaining = <<>>
    /\ CodecIdle
    /\ UiIdle

CallSplitIntoMessageChunks ==
    /\ utilOp = "none"
    /\ utilOp' = "split"
    /\ utilChunks' = splitIntoMessageChunks(utilText)
    /\ UNCHANGED <<utilText, utilInitial, utilRemaining, codecVars, uiVars, appVars>>

CallGetInitialChunk ==
    /\ utilOp = "none"
    /\ utilOp' = "initial"
    /\ utilInitial' = getInitialChunk(utilText).initial
    /\ utilRemaining' = getInitialChunk(utilText).remaining
    /\ UNCHANGED <<utilText, utilChunks, codecVars, uiVars, appVars>>

\* getNextChunk applied to the text, then to its own remaining output, until
\* it returns an empty chunk
CallGetNextChunk ==
    /\ utilOp \in {"none", "next"}
    /\ LET r == getNextChunk(IF utilOp = "none" THEN utilText ELSE utilRemaining)
       IN  IF r.chunk = <<>>
           THEN /\ utilOp' = "nextDone"
                /\ UNCHANGED <<utilChunks, utilRemaining>>
           ELSE /\ utilOp' = "next"
                /\ utilChunks' = Append(utilChunks, r.chunk)
                /\ utilRemaining' = r.remaining
    /\ UNCHANGED <<utilText, utilInitial, codecVars, uiVars, appVars>>

NextUtil ==
    \/ CallSplitIntoMessageChunks
    \/ CallGetInitialChunk
    \/ CallGetNextChunk

SpecUtil == InitUtil /\ [][NextUtil]_vars

\* the characters of s that are not whitespace, in order
NonSpace(s) == SelectSeq(s, LAMBDA c : ~IsSpace(c))

(***************************************************************************)
(* The history codec over whole conversations: chat exchanges, leaving the *)
(* screen (the session is saved) and opening the saved session again.      *)
(***************************************************************************)
Article1 == [headline |-> <<"H">>, source_name |-> <<"S">>,
             url |-> <<"h", "t", "t", "p", ":", "/", "/", "u">>,
             tags |-> <<<<"x">>, <<"y">>>>]

Article2 == [headline |-> <<"K">>, source_name |-> <<>>, url |-> <<>>, tags |-> <<>>]

Article3 == [headline |-> <<"L">>, source_name |-> <<>>,
             url |-> <<"h", "t", "t", "p", "s", ":", "/", "/", "v">>, tags |-> <<>>]

AgentNames == {<<"P", "o">>, <<"F", " ", "f">>}

\* response texts: empty, one sentence, two paragraphs, three sentences, a
\* three-sentence paragraph followed by a second paragraph
ResponseTexts ==
    { <<>>,
      <<"a", ".">>,
      <<"a", ".", "\n", "\n", "b", ".">>,
      <<"a", ".", " ", "b", ".", " ", "c", "!">>,
      <<"a", ".", " ", "b", "?", " ", "c", ".", "\n", "\n", "d", ".">> }

\* the attachments of a response: none, each kind alone, all kinds together
Attachments ==
    { [chart |-> Null, timeline |-> Null, scoreboard |-> Null],
      [chart |-> Chart1, timeline |-> Null, scoreboard |-> Null],
      [chart |-> Chart2, timeline |-> Null, scoreboard |-> Null],
      [chart |-> Null, timeline |-> Timeline1, scoreboard |-> Null],
      [chart |-> Null, timeline |-> Null, scoreboard |-> Scoreboard1],
      [chart |-> Chart1, timeline |-> Timeline1, scoreboard |-> Scoreboard1] }

\* the response data of the first exchange of a conversation
FirstResponses ==
    { [agent |-> a, response |-> r, has_article_reference |-> (c # <<>>),
       articles |-> c, chart |-> v.chart, timeline |-> v.timeline,
       scoreboard |-> v.scoreboard] :
        a \in AgentNames, r \in ResponseTexts,
        c \in {<<>>, <<Article3>>, <<Article1, Article2>>}, v \in Attachments }

\* the response data of the later exchanges
LaterResponses ==
    [agent : AgentNames,
     response : {<<"e", ".">>, <<"e", ".", "\n", "\n", "f", ".">>},
     has_article_reference : {FALSE},
     articles : {<<>>},
     chart : {Null, Chart1},
     timeline : {Null},
     scoreboard : {Null}]

\* the initialMessage prop: absent (the welcome message is shown), or an agent
\* message without an agent name
InitialMessages ==
    {WelcomeMessage, Message(<<"0">>, "agent", <<"y", "o">>, <<>>)}

InitCodec ==
    /\ AppStart
    /\ UtilIdle
    /\ UiIdle
    /\ messages \in {<<m>> : m \in InitialMessages}
    /\ builtHistory = <<>>
    /\ savedSession = <<>>
    /\ codecPhase = "live"
    /\ prevMessages = <<>>
    /\ prevHydrated = FALSE
    /\ exchanges = 0
    /\ loads = 0

\* one chat exchange run to its end: handleSendMessage appends the user
\* message, the response arrives, its first bubble is appended and the queue
\* loop appends the others
Exchange ==
    /\ codecPhase \in {"live", "loaded"}
    /\ exchanges < MaxExchanges
    /\ \E data \in (IF exchanges = 0 THEN FirstResponses ELSE LaterResponses) :
         messages' = messages
                       \o <<Message(<<"user", exchanges + 1>>, "user", <<"q">>, <<>>)>>
                       \o ResponseBubbles(data, exchanges + 1)
    /\ exchanges' = exchanges + 1
    /\ codecPhase' = "live"
    /\ UNCHANGED <<builtHistory, savedSession, prevMessages, prevHydrated, loads, utilVars, appVars,
                   uiVars>>

HasRole(history, role) == \E i \in 1..Len(history) : history[i].role = role

\* leaving the screen (back button or navigation) with a known email:
\* persistChatOnLeave encodes the messages and saves the history if it has a
\* user and a model turn; the screen is left in either case
PersistChatOnLeave ==
    /\ codecPhase \in {"live", "loaded"}
    /\ builtHistory' = buildConversationHistory(messages)
    /\ IF HasRole(builtHistory', "user") /\ HasRole(builtHistory', "model")
       THEN savedSession' = builtHistory' /\ codecPhase' = "saved"
       ELSE savedSession' = savedSession /\ codecPhase' = "left"
    /\ prevMessages' = messages
    /\ prevHydrated' = (codecPhase = "loaded")
    /\ UNCHANGED <<messages, exchanges, loads, utilVars, appVars, uiVars>>

\* loadSession of a screen opened on the saved session
LoadSession ==
    /\ codecPhase = "saved"
    /\ loads < MaxLoads
    /\ LET loaded == LoadedMessages(savedSession)
       IN  messages' = IF Len(loaded) > 0 THEN loaded ELSE <<WelcomeMessage>>
    /\ codecPhase' = "loaded"
    /\ loads' = loads + 1
    /\ UNCHANGED <<builtHistory, savedSession, prevMessages, prevHydrated, exchanges,
                   utilVars, appVars, uiVars>>

NextCodec ==
    \/ Exchange
    \/ PersistChatOnLeave
    \/ LoadSession

SpecCodec == InitCodec /\ [][NextCodec]_vars

(***************************************************************************)
(* The conversation screen: sends, responses, the queue loop that reveals  *)
(* the bubbles of a response one by one, and unmounting.                   *)
(***************************************************************************)
\* number of chat requests of a conversation on the screen
MaxSends == 2

\* number of calls of startStreaming
MaxStreams == 2

\* the response data of the screen model: one, two or three bubbles
ScreenResponses ==
    { [agent |-> a, response |-> r, has_article_reference |-> FALSE, articles |-> <<>>,
       chart |-> Null, timeline |-> Null, scoreboard |-> Null] :
        a \in {<<"F", " ", "f">>},
        r \in { <<"a", ".">>,
                <<"a", ".", "\n", "\n", "b", ".">>,
                <<"a", ".", "\n", "\n", "b", ".", "\n", "\n", "c", ".">> } }

\* the message of the initialMessage prop the home screen passes
InitialUserMessage == Message(<<"user", 0>>, "user", <<"p">>, <<>>)

\* the messages state after construction: the welcome message, or the
\* initialMessage prop
ScreenInitialMessages == {WelcomeMessage, InitialUserMessage}

Init ==
    /\ AppStart
    /\ UtilIdle
    /\ CodecAuxIdle
    /\ \E m \in ScreenInitialMessages :
          /\ messages = <<m>>
          /\ autoSendTimer = (m.type = "user")
    /\ hasEmail \in BOOLEAN
    /\ loadingTimeouts = {}
    /\ loadingMessage = ProcessingQuery
    /\ exits = <<>>
    /\ saveRequests = <<>>
    /\ isSavingHistory = FALSE
    /\ navigations = <<>>
    /\ currentSessionId = NoSession
    /\ saveSessionIds = <<>>
    /\ sessionsCreated = 0
    /\ mounted = TRUE
    /\ isLoading = FALSE
    /\ requests = <<>>
    /\ sends = 0
    /\ currentAgent = DefaultAgentName
    /\ pendingMessages = <<>>
    /\ intervals = {}
    /\ nextIntervalId = 1
    /\ messageQueueIntervalRef = NoInterval
    /\ streamingMessage = NoStream
    /\ streamingIntervalRef = NoInterval
    /\ streams = 0
    /\ handedToQueue = <<>>
    /\ cancelledStreams = {}

\* the text typed into the input for the n-th request
TypedMessage(n) == <<"q">> \o NumToString(n)

\* the call sendMessage(message, conversationHistory, ...) of the n-th request
\* and the state of its promise
ChatRequest(n, message, history) ==
    [n |-> n, message |-> message, history |-> history, state |-> "pending"]

\* the pending loading-message timeouts left by
\* loadingTimeoutsRef.current.forEach(clearTimeout) when none of them is cleared
ClearLoadingTimeouts_KeepsPending(timeouts) == timeouts

\* the pending loading-message timeouts left by
\* loadingTimeoutsRef.current.forEach(clearTimeout)
ClearLoadingTimeouts(timeouts) == {}

\* the two loading-message timeouts handleSendMessage schedules (2000 ms, 5000 ms)
LoadingTimeouts == {1, 2}

\* handleSendMessage() for a typed message, up to the await of the chat request
HandleSendMessage ==
    /\ mounted
    /\ ~isLoading
    /\ sends < MaxSends
    /\ requests' = Append(requests, ChatRequest(sends + 1, TypedMessage(sends + 1),
                                                buildConversationHistory(messages)))
    /\ messages' = Append(messages, Message(<<"user", sends + 1>>, "user",
                                            TypedMessage(sends + 1), <<>>))
    /\ isLoading' = TRUE
    /\ sends' = sends + 1
    /\ loadingTimeouts' = ClearLoadingTimeouts(loadingTimeouts) \cup LoadingTimeouts
    /\ loadingMessage' = ProcessingQuery
    /\ UNCHANGED <<mounted, currentAgent, intervals, nextIntervalId, queueVars,
                   streamVars, utilVars, appVars, codecAux, autoSendTimer, leaveVars>>

\* the timeout of the auto-send effect fires: handleSendMessage(initialMessage.text)
\* of the first render, whose isLoading is false and whose messages are the
\* initial ones, up to the await of the chat request
AutoSend ==
    /\ mounted
    /\ autoSendTimer
    /\ sends < MaxSends
    /\ autoSendTimer' = FALSE
    /\ requests' = Append(requests, ChatRequest(sends + 1, InitialUserMessage.text,
                              buildConversationHistory(<<InitialUserMessage>>)))
    /\ isLoading' = TRUE
    /\ sends' = sends + 1
    /\ loadingTimeouts' = ClearLoadingTimeouts(loadingTimeouts) \cup LoadingTimeouts
    /\ loadingMessage' = ProcessingQuery
    /\ UNCHANGED <<messages, mounted, currentAgent, intervals, nextIntervalId, queueVars,
                   streamVars, utilVars, appVars, codecAux, leaveVars>>

\* handleSendMessage after the await, the request fulfilled with data: the first
\* bubble is appended, the others are handed to the queue loop
ResponseSuccess ==
    /\ mounted
    /\ \E i \in 1..Len(requests), data \in ScreenResponses :
         LET bubbles == ResponseBubbles(data, requests[i].n)
             pending == IF Len(bubbles) > 1 THEN Tail(bubbles) ELSE pendingMessages
             effect  == IF Len(bubbles) > 1
                        THEN MessageQueueEffect(intervals, messageQueueIntervalRef,
                                                nextIntervalId, pending)
                        ELSE [intervals |-> intervals, ref |-> messageQueueIntervalRef,
                              next |-> nextIntervalId]
         IN  /\ requests[i].state = "pending"
             /\ requests' = [requests EXCEPT ![i].state = "fulfilled"]
             /\ currentAgent' = IF data.agent # <<>> THEN data.agent
                                ELSE <<"A", "g", "e", "n", "t">>
             /\ messages' = Append(messages, bubbles[1])
             /\ pendingMessages' = pending
             /\ handedToQueue' = IF Len(bubbles) > 1 THEN handedToQueue \o Tail(bubbles)
                                 ELSE handedToQueue
             /\ intervals' = effect.intervals
             /\ messageQueueIntervalRef' = effect.ref
             /\ nextIntervalId' = effect.next
    /\ isLoading' = FALSE
    /\ loadingTimeouts' = ClearLoadingTimeouts(loadingTimeouts)
    /\ UNCHANGED <<mounted, sends, streamVars, utilVars, appVars, codecAux, autoSendTimer,
                   loadingMessage, leaveVars>>

\* the message of the catch block, as an agent message
ErrorMessage_AsAgent(n) == Message(<<"error", n>>, "agent", <<"x">>, <<>>)

\* the message of the catch block for the n-th request: error.message as a
\* system message
ErrorMessage(n) == Message(<<"error", n>>, "system", <<"x">>, <<>>)

\* handleSendMessage after the await, the request rejected: a system message
ResponseFailure ==
    /\ mounted
    /\ \E i \in 1..Len(requests) :
         /\ requests[i].state = "pending"
         /\ requests' = [requests EXCEPT ![i].state = "rejected"]
         /\ messages' = Append(messages, ErrorMessage(requests[i].n))
    /\ isLoading' = FALSE
    /\ loadingTimeouts' = ClearLoadingTimeouts(loadingTimeouts)
    /\ UNCHANGED <<mounted, sends, currentAgent, intervals, nextIntervalId, queueVars,
                   streamVars, utilVars, appVars, codecAux, autoSendTimer, loadingMessage,
                   leaveVars>>

\* handleSendMessage after the await on the unmounted screen: the state setters
\* have no effect, isLoadingRef and loadingTimeoutsRef are reset
ResponseAfterUnmount ==
    /\ ~mounted
    /\ \E i \in 1..Len(requests), outcome \in {"fulfilled", "rejected"} :
         /\ requests[i].state = "pending"
         /\ requests' = [requests EXCEPT ![i].state = outcome]
    /\ isLoading' = FALSE
    /\ loadingTimeouts' = ClearLoadingTimeouts(loadingTimeouts)
    /\ UNCHANGED <<messages, mounted, sends, currentAgent, intervals, nextIntervalId,
                   queueVars, streamVars, utilVars, appVars, codecAux, autoSendTimer,
                   loadingMessage, leaveVars>>

\* the earliest pending loading-message timeout fires
LoadingTimeout ==
    /\ loadingTimeouts # {}
    /\ \E t \in {Least(loadingTimeouts)} :
         /\ loadingTimeouts' = loadingTimeouts \ {t}
         /\ loadingMessage' = IF ~isLoading THEN loadingMessage
                              ELSE IF t = 1 THEN "Thinking..."
                              ELSE "Generating response..."
    /\ UNCHANGED <<messages, mounted, isLoading, requests, sends, currentAgent, intervals,
                   nextIntervalId, queueVars, streamVars, utilVars, appVars, codecAux,
                   autoSendTimer, leaveVars>>

\* one call of the callback of a queue loop's interval
QueueTick ==
    /\ \E t \in intervals :
         /\ t.kind = "queue"
         /\ IF t.currentIndex < Len(t.messagesToAdd)
            THEN /\ messages' = Append(messages, t.messagesToAdd[t.currentIndex + 1])
                 /\ intervals' = (intervals \ {t})
                                   \cup {[t EXCEPT !.currentIndex = t.currentIndex + 1]}
                 /\ UNCHANGED <<pendingMessages, messageQueueIntervalRef, nextIntervalId>>
            ELSE LET effect == MessageQueueEffect(
                                   ClearInterval(intervals, messageQueueIntervalRef),
                                   NoInterval, nextIntervalId, <<>>)
                 IN  /\ pendingMessages' = <<>>
                     /\ intervals' = effect.intervals
                     /\ messageQueueIntervalRef' = effect.ref
                     /\ nextIntervalId' = effect.next
                     /\ UNCHANGED messages
    /\ UNCHANGED <<mounted, isLoading, requests, sends, currentAgent, handedToQueue,
                   streamVars, utilVars, appVars, codecAux, sendVars, leaveVars>>

\* the cleanups that run when the screen is unmounted: of the auto-send effect,
\* of the unmount effect, of the streaming effect and of the queue effect
UnmountCleanups ==
    /\ mounted' = FALSE
    /\ autoSendTimer' = FALSE
    /\ loadingTimeouts' = ClearLoadingTimeouts(loadingTimeouts)
    /\ intervals' = ClearInterval(StreamingEffectCleanup(intervals, streamingIntervalRef),
                                  messageQueueIntervalRef)
    /\ messageQueueIntervalRef' = NoInterval
    /\ streamingIntervalRef' = NoInterval
    /\ cancelledStreams' =
          IF MidReveal(streamingMessage, intervals, streamingIntervalRef)
          THEN cancelledStreams \cup {streamingMessage.id}
          ELSE cancelledStreams

\* the screen is unmounted by its parent
Unmount ==
    /\ mounted
    /\ UnmountCleanups
    /\ UNCHANGED <<messages, isLoading, requests, sends, currentAgent, nextIntervalId,
                   pendingMessages, handedToQueue, streamingMessage, streams,
                   utilVars, appVars, codecAux, loadingMessage, leaveVars>>

\* number of exit actions (back button, sidebar navigation) of one screen
MaxExits == 1

\* the back button and the screens of the sidebar
ExitTargets == {"back", "home", "chat", "settings", "history"}

\* the callback prop the exit to target invokes; none for the chat screen itself
NavigationCallback(target) ==
    CASE target = "back"     -> "onBack"
      [] target = "home"     -> "onNavigateToHome"
      [] target = "settings" -> "onNavigateToSettings"
      [] target = "history"  -> "onNavigateToHistory"
      [] OTHER               -> "none"

\* hasUser && hasAgent of persistChatOnLeave, with one turn of any role enough
ShouldSave_AnyTurn(history) == HasRole(history, "user") \/ HasRole(history, "model")

\* hasUser && hasAgent of persistChatOnLeave
ShouldSave(history) == HasRole(history, "user") /\ HasRole(history, "model")

\* the finally block of an exit whose save failed, with the callback left out
Navigate_NotAfterFailure(target, save) ==
    IF NavigationCallback(target) = "none" \/ save = "failed" THEN <<>>
    ELSE <<NavigationCallback(target)>>

\* the finally block of an exit: the callbacks invoked, whatever the save did
Navigate(target, save) ==
    IF NavigationCallback(target) = "none" THEN <<>>
    ELSE <<NavigationCallback(target)>>

\* the navigation callback makes the parent show another screen: the
\* conversation screen, if still mounted, is unmounted
LeaveScreen(called) ==
    IF mounted /\ Len(called) > 0
    THEN UnmountCleanups
    ELSE UNCHANGED <<mounted, autoSendTimer, loadingTimeouts, intervals,
                     messageQueueIntervalRef, streamingIntervalRef, cancelledStreams>>

\* the back button or a sidebar entry is pressed: persistChatOnLeave up to the
\* await of saveChatHistory, or, when it returns without saving, to the
\* navigation callback
ExitPressed ==
    /\ mounted
    /\ \E target \in ExitTargets, history \in {buildConversationHistory(messages)} :
         IF hasEmail /\ ShouldSave(history)
         THEN /\ isSavingHistory' = TRUE
              /\ saveRequests' = Append(saveRequests, history)
              /\ saveSessionIds' = Append(saveSessionIds, currentSessionId)
              /\ exits' = Append(exits, [target |-> target, save |-> "pending",
                                         called |-> 0])
              /\ UNCHANGED <<navigations, mounted, autoSendTimer, loadingTimeouts,
                             intervals, messageQueueIntervalRef, streamingIntervalRef,
                             cancelledStreams>>
         ELSE /\ isSavingHistory' = FALSE
              /\ saveRequests' = saveRequests
              /\ saveSessionIds' = saveSessionIds
              /\ exits' = Append(exits, [target |-> target, save |-> "skipped",
                                         called |-> Len(Navigate(target, "skipped"))])
              /\ navigations' = navigations \o Navigate(target, "skipped")
              /\ LeaveScreen(Navigate(target, "skipped"))
    /\ UNCHANGED <<messages, isLoading, requests, sends, currentAgent, nextIntervalId,
                   pendingMessages, handedToQueue, streamingMessage, streams,
                   utilVars, appVars, codecAux, loadingMessage, hasEmail, currentSessionId,
                   sessionsCreated>>

PressExit == Len(exits) < MaxExits /\ ExitPressed

\* the session id passed to the save of the i-th exit: the currentSessionId of
\* the render whose handler made the call
PassedSessionId(i) ==
    saveSessionIds[Cardinality({j \in 1..i : exits[j].save # "skipped"})]

\* result.id of a save: the id passed, or the id of the session the store
\* creates when none was passed
ResultId(passed) == IF passed = NoSession THEN sessionsCreated + 1 ELSE passed

\* saveChatHistory settles: the rest of persistChatOnLeave, then the navigation
\* callback of the exit
SaveSettles ==
    /\ \E i \in 1..Len(exits), save \in {"ok", "failed"} :
         /\ exits[i].save = "pending"
         /\ exits' = [exits EXCEPT ![i].save = save,
                                   ![i].called = Len(Navigate(exits[i].target, save))]
         /\ navigations' = navigations \o Navigate(exits[i].target, save)
         /\ LeaveScreen(Navigate(exits[i].target, save))
         /\ \E passed \in {PassedSessionId(i)} :
               IF save = "ok"
               THEN /\ sessionsCreated' = IF passed = NoSession THEN sessionsCreated + 1
                                          ELSE sessionsCreated
                    /\ currentSessionId' = IF mounted /\ passed = NoSession
                                           THEN ResultId(passed)
                                           ELSE currentSessionId
               ELSE UNCHANGED <<sessionsCreated, currentSessionId>>
    /\ isSavingHistory' = FALSE
    /\ UNCHANGED <<messages, isLoading, requests, sends, currentAgent, nextIntervalId,
                   pendingMessages, handedToQueue, streamingMessage, streams,
                   utilVars, appVars, codecAux, loadingMessage, hasEmail, saveRequests,
                   saveSessionIds>>

Next ==
    \/ HandleSendMessage
    \/ AutoSend
    \/ ResponseSuccess
    \/ ResponseFailure
    \/ ResponseAfterUnmount
    \/ LoadingTimeout
    \/ QueueTick
    \/ Unmount
    \/ PressExit
    \/ SaveSettles

Spec == Init /\ [][Next]_vars

(***************************************************************************)
(* Leaving the screen more than once: the back button and the sidebar stay *)
(* usable while a save is awaited, and the sidebar entry of the chat       *)
(* screen saves without leaving.                                           *)
(***************************************************************************)
\* number of exit actions of a screen that is left more than once
MaxLeaves == 2

PressExitAgain == Len(exits) < MaxLeaves /\ ExitPressed

\* the screen opened without initialMessage and without sessionId, with an email
InitLeave ==
    /\ AppStart
    /\ UtilIdle
    /\ CodecAuxIdle
    /\ messages = <<WelcomeMessage>>
    /\ UiIdle

NextLeave ==
    \/ HandleSendMessage
    \/ ResponseSuccess
    \/ QueueTick
    \/ PressExitAgain
    \/ SaveSettles

SpecLeave == InitLeave /\ [][NextLeave]_vars

(***************************************************************************)
(* The screen with its single-message streaming loop in use: startStreaming *)
(* is called with the first part of a text and the remaining text.         *)
(***************************************************************************)
\* the arguments initialText and remainingText of startStreaming
StreamInputs ==
    { [initialText |-> <<"a", ".">>, remainingText |-> <<>>],
      [initialText |-> <<"a", ".">>, remainingText |-> <<"b", ".", " ", "c", ".">>],
      [initialText |-> <<"a", ".">>, remainingText |-> <<"b", ".", " ", "c">>] }

\* startStreaming(id, agentName, initialText, remainingText), not a routing message
StartStreaming ==
    /\ mounted
    /\ streams < MaxStreams
    /\ \E in \in StreamInputs, agentName \in {<<"F", " ", "f">>} :
         LET id == <<"stream", streams + 1>>
             sm == [on |-> TRUE, id |-> id, agentName |-> agentName,
                    currentText |-> in.initialText, remainingText |-> in.remainingText]
             effect == StreamingEffect(intervals, streamingIntervalRef, nextIntervalId, sm)
         IN  /\ currentAgent' = agentName
             /\ IF in.remainingText # <<>>
                THEN /\ streamingMessage' = sm
                     /\ messages' = SetMessageText(
                                        Append(messages, Message(id, "agent", in.initialText,
                                                                 agentName)),
                                        id, sm.currentText)
                     /\ intervals' = effect.intervals
                     /\ streamingIntervalRef' = effect.ref
                     /\ nextIntervalId' = effect.next
                     /\ cancelledStreams' =
                           IF MidReveal(streamingMessage, intervals, streamingIntervalRef)
                           THEN cancelledStreams \cup {streamingMessage.id}
                           ELSE cancelledStreams
                ELSE /\ messages' = Append(messages, Message(id, "agent", in.initialText,
                                                             agentName))
                     /\ UNCHANGED <<streamingMessage, intervals, streamingIntervalRef,
                                    nextIntervalId, cancelledStreams>>
    /\ streams' = streams + 1
    /\ UNCHANGED <<mounted, isLoading, requests, sends, queueVars, utilVars, appVars, codecAux, sendVars, leaveVars>>

\* one call of the callback of a streaming loop's interval: the updater of
\* setStreamingMessage on the current streamingMessage, then the streaming effect
StreamTick ==
    /\ \E t \in intervals :
         /\ t.kind = "stream"
         /\ LET prev == streamingMessage
                next == getNextChunk(prev.remainingText)
                stop == ~prev.on \/ prev.remainingText = <<>> \/ next.chunk = <<>>
                sm   == IF stop THEN NoStream
                        ELSE [prev EXCEPT !.currentText = prev.currentText \o <<" ">>
                                                             \o next.chunk,
                                          !.remainingText = next.remaining]
                effect == StreamingEffect(
                              IF stop THEN ClearInterval(intervals, streamingIntervalRef)
                              ELSE intervals,
                              IF stop THEN NoInterval ELSE streamingIntervalRef,
                              nextIntervalId, sm)
            IN  /\ streamingMessage' = sm
                /\ messages' = IF prev.on
                               THEN SetMessageText(messages, prev.id,
                                                   IF stop THEN prev.currentText
                                                   ELSE sm.currentText)
                               ELSE messages
                /\ intervals' = effect.intervals
                /\ streamingIntervalRef' = effect.ref
                /\ nextIntervalId' = effect.next
    /\ UNCHANGED <<mounted, isLoading, requests, sends, currentAgent, queueVars, streams,
                   cancelledStreams, utilVars, appVars, codecAux, sendVars, leaveVars>>

\* the screen opened without initialMessage and with an email
InitStream ==
    /\ AppStart
    /\ UtilIdle
    /\ CodecAuxIdle
    /\ messages = <<WelcomeMessage>>
    /\ UiIdle

NextStream ==
    \/ HandleSendMessage
    \/ ResponseSuccess
    \/ ResponseFailure
    \/ QueueTick
    \/ Unmount
    \/ StartStreaming
    \/ StreamTick

SpecStream == InitStream /\ [][NextStream]_vars

(***************************************************************************)
(* Hydration of stored sessions: the screen is opened on a session the     *)
(* server holds, whose model turns are texts in the stored format.         *)
(***************************************************************************)
\* the em dash U+2014 of the stored line format
EmDash == <<"<U+2014>">>

\* the line 'N. Headline <dash> Source [tags: a, b] (url)' of the card c
StoredArticleLine(c, n, dash) ==
    LET source == IF c.sourceName # <<>>
                  THEN <<" ">> \o dash \o <<" ">> \o c.sourceName ELSE <<>>
        tags   == IF Len(c.tags) > 0
                  THEN <<" ", "[", "t", "a", "g", "s", ":", " ">>
                       \o Join(c.tags, <<",", " ">>) \o <<"]">>
                  ELSE <<>>
        url    == IF c.url # <<>> THEN <<" ", "(">> \o c.url \o <<")">> ELSE <<>>
    IN  NumToString(n) \o <<".", " ">> \o c.headline \o source \o tags \o url

\* the cards of the stored lines: source, tags and url each present or not
StoredCards ==
    { [headline |-> <<"B", "i", "g", " ", "W", "i", "n">>, sourceName |-> src,
       url |-> u, tags |-> tg] :
        src \in {<<>>, <<"D", "T">>},
        u   \in {<<>>, <<"h", "t", "t", "p", "s", ":", "/", "/", "e", ".", "c", "/", "a">>},
        tg  \in {<<>>, <<<<"a">>, <<"b">>>>} }

\* a second line, without source
SecondStoredCard ==
    [headline |-> <<"N", "e", "x", "t">>, sourceName |-> <<>>,
     url |-> <<"h", "t", "t", "p", ":", "/", "/", "f">>, tags |-> <<>>]

\* stored model turns that end with an [ARTICLES] block and an agent tag: the
\* visible text, the separator before the block, the cards of the lines, the
\* dash of the lines and the agent name
ArticleCases ==
    { [text |-> t, sep |-> sp, cards |-> cs, dash |-> d, agent |-> <<"F", " ", "f">>] :
        t  \in {<<"T", ".">>, <<"a", ".", "\n", "\n", "b", ".">>},
        sp \in {<<" ">>, <<"\n", "\n">>},
        cs \in {<<c>> : c \in StoredCards} \cup {<<c, SecondStoredCard>> : c \in StoredCards},
        d  \in {EmDash, SourceDash} }

\* the text of the stored model turn of an article case
ArticleTurnText(c) ==
    c.text \o c.sep
      \o Join(<<ArticlesHeader>>
                \o [i \in 1..Len(c.cards) |-> StoredArticleLine(c.cards[i], i, c.dash)],
              <<"\n">>)
      \o <<" ", "[", "A", "g", "e", "n", "t", ":", " ">> \o c.agent \o <<"]">>

\* a stored session: one user turn and one model turn with the given text
StoredSession(text) ==
    << [role |-> "user", parts |-> <<<<"q">>>>], [role |-> "model", parts |-> <<text>>] >>

ArticleSessions == {StoredSession(ArticleTurnText(c)) : c \in ArticleCases}

\* payloads JSON.parse rejects: {x} has balanced braces, {"a":1 is cut off
\* before its closing brace
BalancedMalformed == <<"{", "x", "}">>

TruncatedMalformed == <<"{", "\"", "a", "\"", ":", "1">>

MalformedPayloads == {BalancedMalformed, TruncatedMalformed}

\* stored model turns whose block after a marker holds a malformed payload
VizCases ==
    { [text |-> <<"T", ".">>, marker |-> m, payload |-> p, agent |-> <<"F", " ", "f">>] :
        m \in {ChartMarker, TimelineMarker, ScoreboardMarker},
        p \in MalformedPayloads }

\* the text of the stored model turn of a malformed case
VizTurnText(c) ==
    c.text \o <<"\n", "\n">> \o c.marker \o <<"\n">> \o c.payload
      \o <<" ", "[", "A", "g", "e", "n", "t", ":", " ">> \o c.agent \o <<"]">>

\* the turns that follow the malformed turn in its session
FollowingTurns ==
    << [role |-> "user", parts |-> <<<<"r">>>>],
       [role |-> "model", parts |-> <<<<"N", ".">>>>] >>

VizSession(c) == StoredSession(VizTurnText(c)) \o FollowingTurns

VizSessions == {VizSession(c) : c \in VizCases}

\* the ends of a stored model turn: no tag, or a tag as the pattern
\* /\[Agent:\s*([^\]]+)\]\s*$/i accepts it
AgentTags ==
    { [name |-> <<>>, text |-> <<>>],
      [name |-> <<"F", " ", "f">>,
       text |-> <<" ", "[", "A", "g", "e", "n", "t", ":", " ", "F", " ", "f", "]">>],
      [name |-> <<"P", "o">>,
       text |-> <<" ", "[", "A", "g", "e", "n", "t", ":", " ", "P", "o", "]">>],
      [name |-> <<"C", "a">>,
       text |-> <<"\n", "[", "a", "g", "e", "n", "t", ":", "C", "a", " ", "]", " ">>] }

\* number of model turns of a session with agent tags
TagTurns == 3

\* the tags of the model turns of a session, turn by turn
TagCases == [1..TagTurns -> AgentTags]

\* the session of a tag case: each model turn, of two paragraphs, after a user turn
TagSession(c) ==
    [i \in 1..(2 * TagTurns) |->
        IF i % 2 = 1 THEN [role |-> "user", parts |-> <<<<"q">>>>]
        ELSE [role  |-> "model",
              parts |-> <<<<"a", ".", "\n", "\n", "b", ".">> \o c[i \div 2].text>>]]

TagSessions == {TagSession(c) : c \in TagCases}

StoredSessions == ArticleSessions \cup VizSessions \cup TagSessions

InitDecode ==
    /\ AppStart
    /\ UtilIdle
    /\ UiIdle
    /\ messages = <<WelcomeMessage>>
    /\ builtHistory = <<>>
    /\ savedSession \in StoredSessions
    /\ codecPhase = "saved"
    /\ prevMessages = <<>>
    /\ prevHydrated = FALSE
    /\ exchanges = 0
    /\ loads = 0

NextDecode ==
    \/ LoadSession
    \/ PersistChatOnLeave

SpecDecode == InitDecode /\ [][NextDecode]_vars

(***************************************************************************)
(* App: the navigation state and the screen it selects. The conversation   *)
(* screen invokes its callbacks after persistChatOnLeave, at once when     *)
(* nothing is saved and when saveChatHistory settles otherwise.            *)
(***************************************************************************)
\* number of conversation-screen exits whose save is awaited at one time
MaxAwaitedExits == 2

\* the birds of the home screen: the parrot and the default selectedBirdIds
HomeBirds == {"polly", "flynn", "pixel", "cato"}

\* the navigation state the handlers assign
AppNav ==
    [selectedBird |-> selectedBird, showConversation |-> showConversation,
     showSettings |-> showSettings, showChatHistory |-> showChatHistory,
     settingsInitialTab |-> settingsInitialTab, showEnter |-> showEnter]

handleSelectBird(nav, bird) ==
    [nav EXCEPT !.selectedBird = bird, !.showConversation = TRUE]

handleBackToHome(nav) ==
    [nav EXCEPT !.showConversation = FALSE, !.showChatHistory = FALSE,
                !.selectedBird = NoBird]

handleNavigateToChat(nav) ==
    [nav EXCEPT !.selectedBird = "polly", !.showConversation = TRUE,
                !.showSettings = FALSE, !.showChatHistory = FALSE]

\* handleNavigateToSettings that leaves showChatHistory as it is
handleNavigateToSettings_KeepsHistory(nav, tab) ==
    [nav EXCEPT !.showSettings = TRUE, !.showConversation = FALSE,
                !.selectedBird = NoBird,
                !.settingsInitialTab = IF tab = "undefined" THEN "profile" ELSE tab]

handleNavigateToSettings(nav, tab) ==
    [nav EXCEPT !.showSettings = TRUE, !.showConversation = FALSE,
                !.showChatHistory = FALSE, !.selectedBird = NoBird,
                !.settingsInitialTab = IF tab = "undefined" THEN "profile" ELSE tab]

handleNavigateToHome(nav) ==
    [nav EXCEPT !.showSettings = FALSE, !.showConversation = FALSE,
                !.showChatHistory = FALSE, !.selectedBird = NoBird,
                !.showEnter = FALSE]

handleNavigateToChatHistory(nav) ==
    [nav EXCEPT !.showChatHistory = TRUE, !.showSettings = FALSE,
                !.showConversation = FALSE, !.selectedBird = NoBird]

\* the screen the render of App selects
Screen ==
    IF showOnboarding THEN (IF onboardingStep = 1 THEN "onboarding1" ELSE "onboarding2")
    ELSE IF showEnter THEN "enter"
    ELSE IF ~isAuthenticated THEN "login"
    ELSE IF showSettings THEN "settings"
    ELSE IF showChatHistory THEN "history"
    ELSE IF showConversation /\ selectedBird # NoBird THEN "conversation"
    ELSE "home"

\* the handler App passes to the conversation screen as the callback prop
ConversationProp(callback) ==
    CASE callback = "onBack"               -> "handleBackToHome"
      [] callback = "onNavigateToHome"     -> "handleBackToHome"
      [] callback = "onNavigateToSettings" -> "handleNavigateToSettings"
      [] callback = "onNavigateToHistory"  -> "handleNavigateToChatHistory"
      [] OTHER                             -> "none"

\* the navigation state after the handler, called without arguments except
\* for the bird of handleSelectBird and the tab of handleNavigateToSettings
Handled(handler, arg) ==
    CASE handler = "handleSelectBird"            -> handleSelectBird(AppNav, arg)
      [] handler = "handleBackToHome"            -> handleBackToHome(AppNav)
      [] handler = "handleNavigateToChat"        -> handleNavigateToChat(AppNav)
      [] handler = "handleNavigateToSettings"    -> handleNavigateToSettings(AppNav, arg)
      [] handler = "handleNavigateToHome"        -> handleNavigateToHome(AppNav)
      [] handler = "handleNavigateToChatHistory" -> handleNavigateToChatHistory(AppNav)
      [] OTHER                                   -> AppNav

\* the handler runs: its set-state calls, and the record of the call
Invoke(handler, arg, late) ==
    /\ \E nav \in {Handled(handler, arg)} :
         /\ selectedBird' = nav.selectedBird
         /\ showConversation' = nav.showConversation
         /\ showSettings' = nav.showSettings
         /\ showChatHistory' = nav.showChatHistory
         /\ settingsInitialTab' = nav.settingsInitialTab
         /\ showEnter' = nav.showEnter
    /\ lastHandler' = IF handler = "none" THEN lastHandler
                      ELSE [handler |-> handler, from |-> Screen, late |-> late]

appNavVars == <<selectedBird, showConversation, showSettings, showChatHistory,
                settingsInitialTab>>

\* EnterScreen onGetStarted
GetStarted ==
    /\ Screen = "enter"
    /\ showEnter' = FALSE
    /\ UNCHANGED <<appNavVars, isAuthenticated, signInPending, showOnboarding,
                   onboardingStep, awaitedExits, lastHandler, utilVars, codecVars, uiVars>>

\* LoginScreen onSignedIn up to the await of the profile and the preferences
SignIn ==
    /\ Screen = "login"
    /\ ~signInPending
    /\ signInPending' = TRUE
    /\ UNCHANGED <<appNavVars, showEnter, isAuthenticated, showOnboarding,
                   onboardingStep, awaitedExits, lastHandler, utilVars, codecVars, uiVars>>

\* the rest of onSignedIn, whether the fetches succeeded or not
SignInSettles ==
    /\ signInPending
    /\ signInPending' = FALSE
    /\ isAuthenticated' = TRUE
    /\ showEnter' = FALSE
    /\ UNCHANGED <<appNavVars, showOnboarding, onboardingStep, awaitedExits,
                   lastHandler, utilVars, codecVars, uiVars>>

\* LoginScreen onJoinFlock
JoinFlock ==
    /\ Screen = "login"
    /\ showOnboarding' = TRUE
    /\ onboardingStep' = 1
    /\ UNCHANGED <<appNavVars, showEnter, isAuthenticated, signInPending,
                   awaitedExits, lastHandler, utilVars, codecVars, uiVars>>

\* OnboardingScreen onNext
OnboardingNext ==
    /\ Screen = "onboarding1"
    /\ onboardingStep' = 2
    /\ UNCHANGED <<appNavVars, showEnter, isAuthenticated, signInPending,
                   showOnboarding, awaitedExits, lastHandler, utilVars, codecVars, uiVars>>

\* OnboardingScreen2 onNext with registerUser succeeding
Registered ==
    /\ Screen = "onboarding2"
    /\ isAuthenticated' = TRUE
    /\ showOnboarding' = FALSE
    /\ showEnter' = FALSE
    /\ UNCHANGED <<appNavVars, signInPending, onboardingStep, awaitedExits,
                   lastHandler, utilVars, codecVars, uiVars>>

appFlowVars == <<isAuthenticated, signInPending, showOnboarding, onboardingStep>>

\* HomeScreen: a bird card is pressed
HomeSelectBird ==
    /\ Screen = "home"
    /\ \E bird \in HomeBirds : Invoke("handleSelectBird", bird, FALSE)
    /\ UNCHANGED <<appFlowVars, awaitedExits, utilVars, codecVars, uiVars>>

\* HomeScreen handleNavigate, and the button that opens the topics tab
HomeNavigate ==
    /\ Screen = "home"
    /\ \/ Invoke("handleNavigateToChat", "undefined", FALSE)
       \/ \E tab \in {"undefined", "topics"} : Invoke("handleNavigateToSettings", tab, FALSE)
       \/ Invoke("handleNavigateToChatHistory", "undefined", FALSE)
    /\ UNCHANGED <<appFlowVars, awaitedExits, utilVars, codecVars, uiVars>>

\* SettingsScreen handleNavigate
SettingsNavigate ==
    /\ Screen = "settings"
    /\ \/ Invoke("handleNavigateToHome", "undefined", FALSE)
       \/ Invoke("handleNavigateToChatHistory", "undefined", FALSE)
    /\ UNCHANGED <<appFlowVars, awaitedExits, utilVars, codecVars, uiVars>>

\* ChatHistoryScreen handleNavigate and its button that opens the chat
HistoryNavigate ==
    /\ Screen = "history"
    /\ \/ Invoke("handleNavigateToHome", "undefined", FALSE)
       \/ Invoke("handleNavigateToSettings", "undefined", FALSE)
       \/ Invoke("handleNavigateToChat", "undefined", FALSE)
    /\ UNCHANGED <<appFlowVars, awaitedExits, utilVars, codecVars, uiVars>>

\* ConversationScreen: the back button or a sidebar entry, with nothing to
\* save: the callback is invoked at once
ConversationExitNow ==
    /\ Screen = "conversation"
    /\ \E target \in ExitTargets :
         Invoke(ConversationProp(NavigationCallback(target)), "undefined", FALSE)
    /\ UNCHANGED <<appFlowVars, awaitedExits, utilVars, codecVars, uiVars>>

\* ConversationScreen: the back button or a sidebar entry, up to the await of
\* saveChatHistory
ConversationExitSaving ==
    /\ Screen = "conversation"
    /\ Len(awaitedExits) < MaxAwaitedExits
    /\ \E target \in ExitTargets : awaitedExits' = Append(awaitedExits, target)
    /\ UNCHANGED <<appNavVars, showEnter, appFlowVars, lastHandler, utilVars,
                   codecVars, uiVars>>

\* a sequence without its i-th element
WithoutIndex(seq, i) == SubSeq(seq, 1, i - 1) \o SubSeq(seq, i + 1, Len(seq))

\* saveChatHistory of an exit settles: the callback is invoked, whatever
\* screen is displayed by then
ConversationSaveSettles ==
    /\ \E i \in 1..Len(awaitedExits) :
         /\ awaitedExits' = WithoutIndex(awaitedExits, i)
         /\ Invoke(ConversationProp(NavigationCallback(awaitedExits[i])), "undefined",
                   Screen # "conversation")
    /\ UNCHANGED <<appFlowVars, utilVars, codecVars, uiVars>>

InitApp ==
    /\ AppStart
    /\ UtilIdle
    /\ CodecIdle
    /\ UiIdle

NextApp ==
    \/ GetStarted
    \/ SignIn
    \/ SignInSettles
    \/ JoinFlock
    \/ OnboardingNext
    \/ Registered
    \/ HomeSelectBird
    \/ HomeNavigate
    \/ SettingsNavigate
    \/ HistoryNavigate
    \/ ConversationExitNow
    \/ ConversationExitSaving
    \/ ConversationSaveSettles

SpecApp == InitApp /\ [][NextApp]_vars

(***************************************************************************)
(* Properties of the messageUtils functions.                               *)
(***************************************************************************)
\* position p (1-based) of s lies in a run of two or more newlines
InBlankLine(s, p) ==
    /\ s[p] = "\n"
    /\ \/ (p > 1 /\ s[p - 1] = "\n")
       \/ (p < Len(s) /\ s[p + 1] = "\n")

\* the paragraphs of s: the maximal stretches outside the runs of two or more
\* newlines that hold a non-whitespace character, trimmed, in order
ParagraphsOf(s) ==
    LET starts == {b \in 1..Len(s) :
                      ~InBlankLine(s, b) /\ (b = 1 \/ InBlankLine(s, b - 1))}
        EndOf(b) == CHOOSE e \in b..Len(s) :
                      /\ (e = Len(s) \/ InBlankLine(s, e + 1))
                      /\ \A k \in b..e : ~InBlankLine(s, k)
        real   == {b \in starts : \E k \in b..EndOf(b) : ~IsSpace(s[k])}
        Nth(i) == CHOOSE b \in real : Cardinality({c \in real : c < b}) = i - 1
    IN  [i \in 1..Cardinality(real) |->
            LET b    == Nth(i)
                body == {k \in b..EndOf(b) : ~IsSpace(s[k])}
            IN  SubSeq(s, CHOOSE k \in body : \A j \in body : k <= j,
                          CHOOSE k \in body : \A j \in body : k >= j)]

\* C7: getNextChunk applied repeatedly to its own remaining output ends with an
\* empty chunk, and the chunks returned on the way cover the whole text: no
\* part of it, an unterminated tail included, is skipped.
C7_NextChunkCoversText ==
    utilOp = "nextDone" => NonSpace(Join(utilChunks, <<>>)) = NonSpace(utilText)

\* C8: when getInitialChunk returns a non-empty remaining, initial + " " +
\* remaining has the content of the text up to whitespace.
C8_InitialChunkReconstructsText ==
    (utilOp = "initial" /\ utilRemaining # <<>>)
        => NonSpace(utilInitial \o <<" ">> \o utilRemaining) = NonSpace(utilText)

\* C9: a text of two or more non-empty paragraphs separated by blank lines is
\* split into exactly those paragraphs, trimmed, in order, with no sentence
\* grouping inside a paragraph.
C9_ParagraphsAreTheChunks ==
    (utilOp = "split" /\ Len(ParagraphsOf(utilText)) >= 2)
        => utilChunks = ParagraphsOf(utilText)

\* C9 witness: a two-paragraph text whose first paragraph has three sentences
\* has been split.
C9_Witness ==
    /\ utilOp = "split"
    /\ Len(ParagraphsOf(utilText)) = 2
    /\ Len(MatchSentencesFrom(ParagraphsOf(utilText)[1], 1)) >= 3
    /\ Len(utilChunks) = 2

(***************************************************************************)
(* Properties of the history codec.                                        *)
(***************************************************************************)
IsAgentMessage(m) == m.type = "agent"

\* the length of the run of agent messages msgs starts with
LeadingAgents(msgs) ==
    LET others == {i \in 1..Len(msgs) : msgs[i].type # "agent"}
    IN  IF others = {} THEN Len(msgs) ELSE Least(others) - 1

RECURSIVE TurnsOf(_)
\* the turns of a message list: each message that is not an agent message alone,
\* each maximal run of agent messages together
TurnsOf(msgs) ==
    IF msgs = <<>> THEN <<>>
    ELSE LET n == IF IsAgentMessage(msgs[1]) THEN LeadingAgents(msgs) ELSE 1
         IN  <<SubSeq(msgs, 1, n)>> \o TurnsOf(SubSeq(msgs, n + 1, Len(msgs)))

\* what a turn shows: its text up to whitespace, the agent name, and the
\* attachments of the first bubble
TurnView(turn) ==
    [type         |-> turn[1].type,
     text         |-> NonSpace(Join([i \in 1..Len(turn) |-> turn[i].text], <<>>)),
     agentName    |-> turn[1].agentName,
     chart        |-> turn[1].chart,
     timeline     |-> turn[1].timeline,
     scoreboard   |-> turn[1].scoreboard,
     articleCards |-> turn[1].articleCards]

TurnViews(msgs) ==
    TheOne({[i \in 1..Len(turns) |-> TurnView(turns[i])] : turns \in {TurnsOf(msgs)}})

\* C1: a hydrated session that is encoded and decoded again shows, turn by
\* turn, the same text up to whitespace, the same agent name and the same
\* attachments (article cards with the same headline, sourceName, url, tags)
\* on the first bubble.
C1_HydratedRoundTrip ==
    (codecPhase = "loaded" /\ prevHydrated)
        => TurnViews(messages) = TurnViews(prevMessages)

\* whether a bubble text shows the chart marker or a JSON brace
ShowsChartBlock(text) ==
    \/ IndexOf(text, ChartMarker) # -1
    \/ \E i \in 1..Len(text) : text[i] \in {"{", "}"}

\* the message list is the welcome message, a user message and one agent
\* message with a chart
UserThenAgentWithChart(msgs) ==
    /\ Len(msgs) = 3
    /\ msgs[1] = WelcomeMessage
    /\ msgs[2].type = "user"
    /\ msgs[3].type = "agent"
    /\ msgs[3].chart # Null

\* C2: for a user message followed by an agent message with a chart, decoding
\* the encoded history yields agent bubbles whose joined text is the agent
\* text, whose first bubble has the same chart, and none of which shows the
\* [CHART] marker or JSON.
C2_ChartRoundTrip ==
    (codecPhase \in {"saved", "left"} /\ UserThenAgentWithChart(messages))
        => \E bubbles \in {SelectSeq(LoadedMessages(builtHistory), IsAgentMessage)} :
              /\ Len(bubbles) >= 1
              /\ Join([i \in 1..Len(bubbles) |-> bubbles[i].text], <<" ">>) = messages[3].text
              /\ bubbles[1].chart = messages[3].chart
              /\ \A i \in 1..Len(bubbles) : ~ShowsChartBlock(bubbles[i].text)

\* the messages buildConversationHistory counts as agent response chunks
IsCounted(m) ==
    /\ m.type = "agent"
    /\ m.text # <<>>
    /\ m.id # WelcomeId
    /\ ~m.isRouting

\* the agent messages of the runs the claim speaks of: all but the synthetic
\* welcome message and the routing messages
IsRunMessage(m) ==
    /\ m.type = "agent"
    /\ m.id # WelcomeId
    /\ ~m.isRouting

\* the 1-based positions of the user messages, and the end of the list
RunEnds(msgs) == {i \in 1..Len(msgs) : msgs[i].type = "user"} \cup {Len(msgs) + 1}

\* the positions of the run that ends at position e, of its counted messages
\* or of all its run messages
RunPositions(msgs, e, countedOnly) ==
    {i \in 1..(e - 1) : /\ IF countedOnly THEN IsCounted(msgs[i]) ELSE IsRunMessage(msgs[i])
                        /\ \A u \in RunEnds(msgs) : u < e => u < i}

\* the elements of a finite set of integers in increasing order
RECURSIVE Ascending(_)
Ascending(S) == IF S = {} THEN <<>> ELSE <<Least(S)>> \o Ascending(S \ {Least(S)})

\* the greatest element of a non-empty set of integers
Greatest(S) == CHOOSE i \in S : \A j \in S : i >= j

\* ' [Agent: <name>]' for the last message among positions P that has an agent
\* name, nothing when none has
AgentSuffix(msgs, P) ==
    LET named == {i \in P : msgs[i].agentName # <<>>}
    IN  IF named = {} THEN <<>>
        ELSE <<" ", "[", "A", "g", "e", "n", "t", ":", " ">>
             \o msgs[Greatest(named)].agentName \o <<"]">>

\* the serialized attachments of a message, each block after a blank line, in
\* the order chart, timeline, scoreboard, articles
AttachmentBlocks(m) ==
    (IF m.chart # Null THEN <<"\n", "\n">> \o formatChartForLog(m.chart) ELSE <<>>)
    \o (IF m.timeline # Null THEN <<"\n", "\n">> \o formatTimelineForLog(m.timeline)
        ELSE <<>>)
    \o (IF m.scoreboard # Null THEN <<"\n", "\n">> \o formatScoreboardForLog(m.scoreboard)
        ELSE <<>>)
    \o (IF Len(m.articleCards) > 0
        THEN <<"\n", "\n">> \o formatArticleCardsForLog(m.articleCards) ELSE <<>>)

\* the model turns of a history, in order
IsModelTurn(h) == h.role = "model"

ModelTurns(history) == SelectSeq(history, IsModelTurn)

\* the model turns the amended C10 expects: one for each run with a counted
\* message
ExpectedModelTurns(msgs) ==
    LET ends == Ascending({e \in RunEnds(msgs) : RunPositions(msgs, e, TRUE) # {}})
    IN  [k \in 1..Len(ends) |->
            LET pos == Ascending(RunPositions(msgs, ends[k], TRUE))
            IN  [role  |-> "model",
                 parts |-> <<Join([j \in 1..Len(pos) |->
                                      IF j = 1
                                      THEN msgs[pos[1]].text \o AttachmentBlocks(msgs[pos[1]])
                                      ELSE msgs[pos[j]].text],
                                  <<" ">>)
                             \o AgentSuffix(msgs, {i \in 1..pos[Len(pos)] : IsCounted(msgs[i])})>>]]

\* the model turns C10 as stated expects: one for each run of agent messages,
\* the bubble texts joined by single spaces, the suffix from the names of the
\* run
StatedModelTurns(msgs) ==
    LET ends == Ascending({e \in RunEnds(msgs) : RunPositions(msgs, e, FALSE) # {}})
    IN  [k \in 1..Len(ends) |->
            LET P   == RunPositions(msgs, ends[k], FALSE)
                pos == Ascending(P)
            IN  [role  |-> "model",
                 parts |-> <<Join([j \in 1..Len(pos) |-> msgs[pos[j]].text], <<" ">>)
                             \o AgentSuffix(msgs, P)>>]]

C3_NoTimerWhileRequestInFlight == isLoading => intervals = {}

\* whether m is a bubble of the response to the n-th send
IsBubbleOf(m, n) == m.type = "agent" /\ Len(m.id) = 3 /\ m.id[2] = n

\* C4: the bubbles of one response occupy consecutive positions of the
\* message list in chunk order, with no user message and no bubble of another
\* response between two of them.
C4_OneResponseAtATime ==
    \A n \in 1..MaxSends :
        \A i \in 1..Len(messages), j \in 1..Len(messages) :
            (i < j /\ IsBubbleOf(messages[i], n) /\ IsBubbleOf(messages[j], n))
                => j - i = messages[j].id[3] - messages[i].id[3]

\* how many messages of the list have the given id
Occurrences(msgs, id) == Cardinality({i \in 1..Len(msgs) : msgs[i].id = id})

\* C6: on the mounted screen, once the queue loop has stopped with an empty
\* pending queue and no active timer, every bubble that was handed to the
\* loop is in the message list exactly once, whatever sends, responses and
\* errors occurred during the reveal.
C6_QueuedBubblesAllAppended ==
    (mounted /\ pendingMessages = <<>> /\ intervals = {})
        => \A k \in 1..Len(handedToQueue) :
               Occurrences(messages, handedToQueue[k].id) = 1

\* the active timers of the streaming loop
StreamIntervals == {t \in intervals : t.kind = "stream"}

\* the text of every message whose streaming loop was cancelled stays as it is
CancelledTextsKept ==
    \A i \in 1..Len(messages) :
        messages[i].id \in cancelledStreams
            => /\ i <= Len(messages')
               /\ messages'[i].id = messages[i].id
               /\ messages'[i].text = messages[i].text

\* C5: at most one timer of the single-message streaming loop is active at
\* any time, also after a loop was cancelled mid-reveal and a send started,
\* and the text of a message whose loop was cancelled never changes again.
C5_OneStreamingLoop ==
    /\ [](Cardinality(StreamIntervals) <= 1)
    /\ [][CancelledTextsKept]_vars

\* a streaming loop was cancelled mid-reveal by the start of the next one, which
\* is revealing its message while a new send is in flight
C5_Witness ==
    /\ mounted
    /\ isLoading
    /\ cancelledStreams # {}
    /\ MidReveal(streamingMessage, intervals, streamingIntervalRef)
    /\ \E i \in 1..Len(messages) :
          /\ messages[i].id \in cancelledStreams
          /\ messages[i].text = <<"a", ".">>

(***************************************************************************)
(* Properties of the sentence grouping of splitIntoMessageChunks.          *)
(***************************************************************************)
\* the text has no paragraph break that splits it
SingleParagraph(text) ==
    Len(SelectSeq(MapTrim(SplitOnBlankLines(text)), NonEmpty)) <= 1

RECURSIVE SumUpTo(_, _)
\* g[1] + ... + g[k]
SumUpTo(g, k) == IF k = 0 THEN 0 ELSE g[k] + SumUpTo(g, k - 1)

\* chunks is a grouping of the sentences as stated: g[k] in {1, 2} sentences go
\* to chunk k, in order; two sentences share a chunk only within the limit;
\* every even (0-based) sentence index after the first starts a chunk
GroupedAsStated(sentences, chunks) ==
    \E g \in [1..Len(chunks) -> {1, 2}] :
        /\ SumUpTo(g, Len(chunks)) = Len(sentences)
        /\ \A k \in 1..Len(chunks) :
              \E first \in {SumUpTo(g, k - 1) + 1} :
                 /\ chunks[k] = Trim(Join(SubSeq(sentences, first, first + g[k] - 1),
                                          <<" ">>))
                 /\ g[k] = 2 =>
                       Len(sentences[first] \o <<" ">> \o sentences[first + 1]) <= 150
        /\ \A i \in 1..(Len(sentences) - 1) :
              i % 2 = 0 => \E k \in 1..Len(chunks) : SumUpTo(g, k - 1) = i

\* the call of splitIntoMessageChunks on a single paragraph of more than two
\* sentences has returned
GroupingCase ==
    /\ utilOp = "split"
    /\ SingleParagraph(utilText)
    /\ Len(Sentences(utilText)) > 2

\* C21: for a single-paragraph text with more than two sentences,
\* splitIntoMessageChunks partitions the sentences, in order, into chunks of
\* one or two sentences; two sentences share a chunk only if their
\* space-joined length is at most 150, and a chunk is closed at every even
\* sentence index after the first.
C21_SentencesGrouped ==
    GroupingCase => GroupedAsStated(Sentences(utilText), utilChunks)

\* four sentences, the first two in one chunk, the last two apart because
\* together they exceed the limit
C21_Witness ==
    /\ GroupingCase
    /\ Len(Sentences(utilText)) = 4
    /\ Len(utilChunks) = 3
    /\ utilChunks[1] = Sentences(utilText)[1] \o <<" ">> \o Sentences(utilText)[2]
    /\ Len(utilChunks[2]) + 1 + Len(utilChunks[3]) > 150

(***************************************************************************)
(* Properties of the split by length of getInitialChunk.                   *)
(***************************************************************************)
\* the sentence loop of getInitialChunk left no remainder although the text
\* is longer than targetLength
FallbackCase(text) ==
    /\ InitialChunkLoop(Sentences(text), 0, <<>>).remaining = <<>>
    /\ Len(text) > TargetLength

\* the last period-space at or before targetLength, else the last space at or
\* before targetLength, else -1
NearestCut(text) ==
    LET ps == LastIndexOf(text, <<".", " ">>, TargetLength)
        sp == LastIndexOf(text, <<" ">>, TargetLength)
    IN  IF ps # -1 THEN ps ELSE sp

\* C20: when the sentence loop of getInitialChunk leaves no remainder and the
\* text is longer than 150 characters, the text is cut at the last
\* period-space at or before index 150 or, without one, at the last space at
\* or before index 150: initial is the non-empty prefix before the cut and
\* remaining is the rest of the text.
C20_FallbackCutsAtSpace ==
    (utilOp = "initial" /\ FallbackCase(utilText))
        => \A cut \in {NearestCut(utilText)} :
              (cut # -1 /\ Trim(Substring(utilText, 0, cut)) # <<>>)
                  => /\ utilInitial = Trim(Substring(utilText, 0, cut))
                     /\ utilInitial # <<>>
                     /\ utilRemaining = Trim(SubstringFrom(utilText, cut + 1))

(***************************************************************************)
(* Properties of the hydration of stored sessions.                         *)
(***************************************************************************)
\* the stored session has been hydrated once and not been saved again
FirstHydration == codecPhase = "loaded" /\ loads = 1

\* whether the text s contains the text pat
Contains(s, pat) == IndexOf(s, pat) # -1

\* whether the text s contains "[Agent:" in any case
ShowsAgentTag(s) == \E i \in 0..(Len(s) - 1) : StartsWithAtCI(s, AgentPrefix, i)

\* the agent bubbles of the message list
AgentBubbles == SelectSeq(messages, IsAgentMessage)

\* the decoding of the article case c as the stored format states it
ArticleCaseDecoded(c) ==
    \E bubbles \in {AgentBubbles} :
        /\ Len(bubbles) >= 1
        /\ \A k \in 1..Len(bubbles) :
              /\ bubbles[k].agentName = c.agent
              /\ ~Contains(bubbles[k].text, ArticlesHeader)
              /\ ~ShowsAgentTag(bubbles[k].text)
        /\ bubbles[1].articleCards = c.cards

\* C11: decoding a model turn that ends with an [ARTICLES] block and an
\* [Agent: name] tag yields agent bubbles that all carry the name, the first
\* of which carries one card per line with exactly the headline, sourceName,
\* tags and url of the line, and no bubble text shows the block or the tag.
C11_ArticleBlockDecoded ==
    FirstHydration
        => \A c \in ArticleCases :
               savedSession = StoredSession(ArticleTurnText(c)) => ArticleCaseDecoded(c)

\* whether the message list holds a bubble of the given type and text
HasBubble(type, text) ==
    \E k \in 1..Len(messages) : messages[k].type = type /\ messages[k].text = text

\* the malformed block of the case c was treated as absent and removed
VizCaseDropped(c) ==
    \E bubbles \in {AgentBubbles} :
        /\ \A k \in 1..Len(bubbles) :
              /\ bubbles[k].chart = Null
              /\ bubbles[k].timeline = Null
              /\ bubbles[k].scoreboard = Null
              /\ ~Contains(bubbles[k].text, c.marker)
              /\ ~Contains(bubbles[k].text, c.payload)
        /\ HasBubble("agent", c.text)
        /\ HasBubble("user", <<"r">>)
        /\ HasBubble("agent", <<"N", ".">>)

\* C19: decoding a model turn whose [CHART], [TIMELINE] or [SCOREBOARD] marker
\* is followed by a malformed JSON payload drops the block: no attachment, no
\* bubble text shows the marker or the payload, the text before the block is
\* kept, and the turns after it are hydrated.
C19_MalformedBlockDropped ==
    FirstHydration
        => \A c \in VizCases : savedSession = VizSession(c) => VizCaseDropped(c)

\* the name the bubbles of the j-th model turn of the tag case c are to show
NameAsStated(c, j) ==
    LET tagged == {k \in 1..j : c[k].name # <<>>}
    IN  IF tagged = {} THEN DefaultAgentName ELSE c[Greatest(tagged)].name

\* the bubbles hydrated from the turn at (0-based) index idx of the session
BubblesOfTurn(idx) ==
    SelectSeq(messages, LAMBDA m : m.type = "agent" /\ Len(m.id) = 4 /\ m.id[2] = idx)

\* C24: every bubble hydrated from a model turn shows the agent name of the
\* trailing [Agent: name] tag of the turn, a turn without a tag the name of the
\* most recent earlier tagged turn or, when there is none, the default agent
\* name of the screen; no bubble text shows the tag.
C24_AgentNameFromTag ==
    FirstHydration
        => \A c \in TagCases :
              savedSession = TagSession(c)
                 => \A j \in 1..TagTurns :
                       \E bubbles \in {BubblesOfTurn(2 * j - 1)} :
                          /\ [k \in 1..Len(bubbles) |-> bubbles[k].text]
                                = << <<"a", ".">>, <<"b", ".">> >>
                          /\ \A k \in 1..Len(bubbles) :
                                bubbles[k].agentName = NameAsStated(c, j)

\* a session was hydrated whose first turn has no tag, whose second has one
\* and whose third has none
C24_Witness ==
    /\ FirstHydration
    /\ \E c \in TagCases :
          /\ savedSession = TagSession(c)
          /\ c[1].name = <<>> /\ c[2].name = <<"C", "a">> /\ c[3].name = <<>>
    /\ Len(BubblesOfTurn(1)) = 2
    /\ BubblesOfTurn(1)[1].agentName = DefaultAgentName
    /\ BubblesOfTurn(5)[2].agentName = <<"C", "a">>

(***************************************************************************)
(* Properties of sending, of the failure of a request and of leaving.      *)
(***************************************************************************)
\* whether the history holds a user turn with the text message
HasUserTurnFor(history, message) ==
    \E k \in 1..Len(history) :
        history[k].role = "user" /\ history[k].parts = <<message>>

\* C12: the conversation_history of a chat request never contains a user
\* turn for the message of that same request, for a typed message and for
\* the auto-sent initialMessage alike.
C12_HistoryExcludesSentMessage ==
    \A i \in 1..Len(requests) : ~HasUserTurnFor(requests[i].history, requests[i].message)

\* the i-th request settles in this step with the given outcome
Settles(i, outcome) ==
    /\ i <= Len(requests')
    /\ requests[i].state = "pending"
    /\ requests'[i].state = outcome

\* the failure of a request on the mounted screen adds one system message and
\* leaves the reveal state alone
FailureStep ==
    \A i \in 1..Len(requests) :
        (mounted /\ Settles(i, "rejected"))
            => /\ Len(messages') = Len(messages) + 1
               /\ SubSeq(messages', 1, Len(messages)) = messages
               /\ messages'[Len(messages')].type = "system"
               /\ pendingMessages' = pendingMessages
               /\ messageQueueIntervalRef' = messageQueueIntervalRef
               /\ streamingMessage' = streamingMessage
               /\ streamingIntervalRef' = streamingIntervalRef
               /\ intervals' = intervals
               /\ ~isLoading'

\* a request that settles leaves isLoading false and no loading timeout pending
SettledStep ==
    \A i \in 1..Len(requests) :
        (Settles(i, "fulfilled") \/ Settles(i, "rejected"))
            => ~isLoading' /\ loadingTimeouts' = {}

\* C13: a failed chat request appends exactly one system message, leaves the
\* pending bubble queue and the streaming state unchanged and ends with
\* isLoading false; every request that completes, successfully or not, leaves
\* isLoading false and no loading-message timeout pending.
C13_FailureSurfacesOnce == [][FailureStep /\ SettledStep]_vars

\* a request failed while the queue loop was revealing the previous response
C13_Witness ==
    /\ mounted
    /\ ~isLoading
    /\ pendingMessages # <<>>
    /\ intervals # {}
    /\ \E i \in 1..Len(requests) : requests[i].state = "rejected"
    /\ messages[Len(messages)].type = "system"

\* an exit action starts in this step (the back button or a sidebar entry is pressed)
ExitStarts == Len(exits') = Len(exits) + 1

\* whether the history encoded from msgs has a turn of the given role
EncodesTurnOf(msgs, role) ==
    \E h \in {buildConversationHistory(msgs)} :
        \E k \in 1..Len(h) : h[k].role = role

\* a save request is issued exactly by an exit action that finds an email and a
\* user and a model turn in the encoded history, and carries that history
SaveOnlyWhenWorthIt ==
    /\ saveRequests' # saveRequests => ExitStarts
    /\ ExitStarts =>
         IF hasEmail /\ EncodesTurnOf(messages, "user") /\ EncodesTurnOf(messages, "model")
         THEN saveRequests' = Append(saveRequests, buildConversationHistory(messages))
         ELSE saveRequests' = saveRequests

\* C14: persistChatOnLeave calls saveChatHistory only when an email is known
\* and the history encoded from the full message list has at least one user
\* turn and one model turn; in every other case no save request is issued.
C14_SaveOnlyUserAndModel == [][SaveOnlyWhenWorthIt]_vars

\* an exit with a user turn and no model turn (the only request failed) was
\* not saved, and an exit without email neither
C14_Witness ==
    /\ Len(exits) = 1
    /\ exits[1].save = "skipped"
    /\ saveRequests = <<>>
    /\ hasEmail
    /\ \E k \in 1..Len(messages) : messages[k].type = "user"
    /\ \E k \in 1..Len(messages) : messages[k].type = "system"

\* the exits that invoke a navigation callback
IsExit(e) == e.target \in {"back", "home", "settings", "history"}

\* the number of entries of the sequence seq equal to x
CountOf(seq, x) == Cardinality({k \in 1..Len(seq) : seq[k] = x})

\* every exit whose save attempt has finished has invoked its callback once,
\* and no exit has invoked it before
CallbackOncePerExit ==
    /\ \A i \in 1..Len(exits) :
          /\ exits[i].save = "pending" => exits[i].called = 0
          /\ (exits[i].save # "pending" /\ IsExit(exits[i])) => exits[i].called = 1
    /\ \A cb \in {"onBack", "onNavigateToHome", "onNavigateToSettings",
                  "onNavigateToHistory"} :
          CountOf(navigations, cb)
            = Cardinality({i \in 1..Len(exits) :
                              /\ exits[i].save # "pending"
                              /\ NavigationCallback(exits[i].target) = cb})

\* the step in which the save of an exit fails invokes the callback of the exit
\* and leaves isSavingHistory false
SaveFailureStep ==
    \A i \in 1..Len(exits) :
        (exits[i].save = "pending" /\ exits'[i].save = "failed")
            => /\ ~isSavingHistory'
               /\ IsExit(exits[i])
                    => navigations' = Append(navigations,
                                             NavigationCallback(exits[i].target))

\* C15: for the back button and the sidebar navigation to home, settings or
\* history, the navigation callback is invoked exactly once, after the save
\* attempt has finished, whether the save succeeded, failed or was skipped;
\* a save failure does not prevent it and leaves isSavingHistory false.
C15_NavigationAfterSave ==
    /\ [](CallbackOncePerExit)
    /\ [][SaveFailureStep]_vars

\* the save of a back-button exit failed and onBack has been invoked
C15_Witness ==
    /\ Len(exits) = 1
    /\ exits[1].target = "back"
    /\ exits[1].save = "failed"
    /\ navigations = <<"onBack">>
    /\ ~isSavingHistory
    /\ ~mounted

\* C16: after the screen has been unmounted, on whichever exit path and with
\* whichever loops running, no streaming interval, no queue interval and no
\* loading-message timeout remains scheduled, and no message is changed.
C16_NothingScheduledAfterUnmount ==
    /\ [](~mounted => (intervals = {} /\ loadingTimeouts = {}))
    /\ [][~mounted => messages' = messages]_vars

\* the screen was left through a navigation callback while the queue loop was
\* revealing a response and a chat request was in flight
C16_Witness ==
    /\ ~mounted
    /\ navigations # <<>>
    /\ pendingMessages # <<>>
    /\ messageQueueIntervalRef = NoInterval
    /\ \E i \in 1..Len(requests) : requests[i].state = "pending"

(***************************************************************************)
(* Properties of the bubbles of one response or model turn.                *)
(***************************************************************************)
\* whether the bubbles a and b were created from the same backend response
\* (ids agent-n-index) or from the same model turn (ids agent-idx-chunkIdx-t)
SameSource(a, b) ==
    /\ a.type = "agent" /\ b.type = "agent"
    /\ Len(a.id) >= 3 /\ Len(a.id) = Len(b.id)
    /\ a.id[2] = b.id[2]

\* whether the bubble carries a structured attachment
CarriesAttachment(m) ==
    \/ m.chart # Null
    \/ m.timeline # Null
    \/ m.scoreboard # Null
    \/ Len(m.articleCards) > 0
    \/ m.hasArticleReference

\* C17: among the bubbles created from one backend response or from one
\* decoded model turn only the first carries chart, timeline, scoreboard,
\* articleCards or hasArticleReference, and all of them carry the same
\* agentName.
C17_AttachmentsOnFirstBubble ==
    \A i \in 1..Len(messages), j \in 1..Len(messages) :
        SameSource(messages[i], messages[j])
            => /\ messages[i].agentName = messages[j].agentName
               /\ messages[i].id[3] > 0 => ~CarriesAttachment(messages[i])

\* a hydrated model turn of several bubbles whose first carries a chart and
\* article cards, and a live response of several bubbles whose first carries
\* attachments
C17_Witness ==
    /\ \E i \in 1..Len(messages), j \in 1..Len(messages) :
          /\ SameSource(messages[i], messages[j])
          /\ Len(messages[i].id) = 4
          /\ messages[i].id[3] = 0 /\ messages[j].id[3] > 0
          /\ messages[i].chart # Null
          /\ Len(messages[i].articleCards) > 0
    /\ \E i \in 1..Len(messages), j \in 1..Len(messages) :
          /\ SameSource(messages[i], messages[j])
          /\ Len(messages[i].id) = 3
          /\ messages[i].id[3] = 0 /\ messages[j].id[3] > 0
          /\ CarriesAttachment(messages[i])

(***************************************************************************)
(* Properties of the reveal of one message by the streaming loop.          *)
(***************************************************************************)
\* the text of the message with the given id
TextOf(msgs, id) == (CHOOSE m \in {msgs[k] : k \in 1..Len(msgs)} : m.id = id).text

\* whether s is one sentence: it is not empty, has no whitespace at its ends
\* and no terminator before its last run of terminators
OneSentence(s) ==
    /\ s # <<>>
    /\ Trim(s) = s
    /\ \A k \in 1..(Len(s) - 1) : IsTerminator(s[k]) => IsTerminator(s[k + 1])

\* a tick of the streaming loop that reveals text: it appends one sentence of
\* the tail to the message after a single space and keeps the rest of the tail
RevealStep ==
    (streamingMessage.on /\ streamingMessage'.on
       /\ streamingMessage'.id = streamingMessage.id
       /\ streamingMessage' # streamingMessage)
        => \E n \in 1..Len(streamingMessage.remainingText) :
              \E s \in {SubSeq(Trim(streamingMessage.remainingText), 1, n)} :
                 /\ OneSentence(s)
                 /\ streamingMessage'.currentText
                      = streamingMessage.currentText \o <<" ">> \o s
                 /\ TextOf(messages', streamingMessage.id) = streamingMessage'.currentText
                 /\ NonSpace(s) \o NonSpace(streamingMessage'.remainingText)
                      = NonSpace(streamingMessage.remainingText)

\* C18: each tick of the streaming loop appends exactly one sentence of the
\* tail, after a single space, to the text of the target message, and nothing
\* of the tail is lost, so that the loop ends with the initial text followed
\* by all sentences of the tail in their order.
C18_StreamRevealsTail == [][RevealStep]_vars

(***************************************************************************)
(* Properties of the histories the screen builds.                          *)
(***************************************************************************)
IsUserMessage(m) == m.type = "user"

IsUserTurn(h) == h.role = "user"

\* the role of the turn each message contributes to: "user" for a user
\* message, "model" for a counted agent message, none for the others
TurnRoles(msgs) ==
    LET kept == SelectSeq(msgs, LAMBDA m : IsUserMessage(m) \/ IsCounted(m))
    IN  [k \in 1..Len(kept) |-> IF IsUserMessage(kept[k]) THEN "user" ELSE "model"]

RECURSIVE MergeModelRuns(_)
\* a sequence of roles with each run of "model" replaced by one "model"
MergeModelRuns(roles) ==
    IF Len(roles) <= 1 THEN roles
    ELSE IF roles[1] = "model" /\ roles[2] = "model" THEN MergeModelRuns(Tail(roles))
    ELSE <<roles[1]>> \o MergeModelRuns(Tail(roles))

\* history mirrors the order of msgs, has one verbatim user turn per user
\* message and no two adjacent model turns
MirrorsMessages(msgs, history) ==
    /\ [k \in 1..Len(history) |-> history[k].role] = MergeModelRuns(TurnRoles(msgs))
    /\ SelectSeq(history, IsUserTurn)
          = [k \in 1..Len(SelectSeq(msgs, IsUserMessage)) |->
                [role |-> "user", parts |-> <<SelectSeq(msgs, IsUserMessage)[k].text>>]]
    /\ \A k \in 1..(Len(history) - 1) :
          ~(history[k].role = "model" /\ history[k + 1].role = "model")

\* a step that issues a chat request or a save request: its history is built
\* from the messages of the screen (from the initial ones by the auto-send)
HistoryBuiltStep ==
    /\ Len(requests') > Len(requests)
          => \E h \in {requests'[Len(requests')].history} :
                IF autoSendTimer /\ ~autoSendTimer'
                THEN MirrorsMessages(<<InitialUserMessage>>, h)
                ELSE MirrorsMessages(messages, h)
    /\ Len(saveRequests') > Len(saveRequests)
          => MirrorsMessages(messages, saveRequests'[Len(saveRequests')])

\* C22: the history buildConversationHistory builds preserves the order of the
\* messages, contains exactly one user turn per user message with the text of
\* the message unmodified, and never contains two adjacent model turns.
C22_HistoryMirrorsMessages == [][HistoryBuiltStep]_vars

\* a history was saved for a list in which two user messages are adjacent and
\* an error message stands between agent bubbles and a user message
C22_Witness ==
    /\ Len(saveRequests) = 1
    /\ \E i \in 1..(Len(messages) - 1) :
          IsUserMessage(messages[i]) /\ IsUserMessage(messages[i + 1])
    /\ \E i \in 1..Len(messages) : messages[i].type = "system"
    /\ Len(SelectSeq(saveRequests[1], IsModelTurn)) >= 1

\* the messages that are no part of the conversation: the welcome message,
\* the routing messages and the system (error) messages
IsLeftOut(m) ==
    (m.type = "agent" /\ m.id = <<"1">>) \/ m.isRouting \/ m.type = "system"

\* msgs without the messages left out
WithoutLeftOut(msgs) == SelectSeq(msgs, LAMBDA m : ~IsLeftOut(m))

\* a routing message as the Message type admits it
RoutingProbe ==
    [Message(<<"route">>, "agent", <<"R", "~">>, <<"F", " ", "f">>) EXCEPT !.isRouting = TRUE]

\* msgs with m inserted after position k
InsertAfter(msgs, k, m) == SubSeq(msgs, 1, k) \o <<m>> \o SubSeq(msgs, k + 1, Len(msgs))

\* history is what the messages that are part of the conversation give alone:
\* no turn shows the text of a message left out, and a message left out, a
\* routing message at any position included, neither splits nor ends a run
LeavesOutAsStated(msgs, history) ==
    /\ history = buildConversationHistory(WithoutLeftOut(msgs))
    /\ \A i \in 1..Len(msgs) : \A k \in 1..Len(history) :
          IsLeftOut(msgs[i]) => ~Contains(history[k].parts[1], msgs[i].text)
    /\ \A k \in 0..Len(msgs) :
          /\ buildConversationHistory(InsertAfter(msgs, k, RoutingProbe)) = history
          /\ \A j \in 1..Len(history) : ~Contains(history[j].parts[1], RoutingProbe.text)

\* a step that issues a chat request or a save request: what its history leaves out
LeftOutStep ==
    /\ Len(requests') > Len(requests)
          => \E h \in {requests'[Len(requests')].history} :
                IF autoSendTimer /\ ~autoSendTimer'
                THEN LeavesOutAsStated(<<InitialUserMessage>>, h)
                ELSE LeavesOutAsStated(messages, h)
    /\ Len(saveRequests') > Len(saveRequests)
          => LeavesOutAsStated(messages, saveRequests'[Len(saveRequests')])

\* C23: no turn of a history sent to the backend or persisted contains text of
\* the welcome message, of a routing message or of a system (error) message,
\* and such messages never split or end a run of agent bubbles.
C23_LeftOutOfHistory == [][LeftOutStep]_vars

\* a history with a model turn was saved from a list that starts with the
\* welcome message and has an error message between two agent bubbles
C23_Witness ==
    /\ Len(saveRequests) = 1
    /\ messages[1] = WelcomeMessage
    /\ \E i \in 2..(Len(messages) - 1) :
          /\ messages[i].type = "system"
          /\ IsCounted(messages[i - 1])
          /\ IsCounted(messages[i + 1])
    /\ Len(SelectSeq(saveRequests[1], IsModelTurn)) = 1

(***************************************************************************)
(* Properties of the message list between session loads.                   *)
(***************************************************************************)
\* a message with its text left out
WithoutText(m) == [m EXCEPT !.text = <<>>]

\* a step keeps the messages there are: it may append messages, and change
\* the text of the message the streaming loop reveals, in a step of that loop
KeepsMessages ==
    /\ Len(messages') >= Len(messages)
    /\ \A k \in 1..Len(messages) :
          /\ WithoutText(messages'[k]) = WithoutText(messages[k])
          /\ messages'[k].text # messages[k].text
                => /\ streamingMessage.on
                   /\ streamingMessage' # streamingMessage
                   /\ messages[k].id = streamingMessage.id

\* C25: between session loads every operation of the screen keeps the
\* messages: the list only grows at its end, no message is deleted or
\* reordered, id, type, agentName and attachments of a message never change,
\* and a text is changed by the streaming loop only, for the message that is
\* its target.
C25_MessagesKept == [][KeepsMessages]_vars

\* the streaming loop has changed the text of its message, which stands
\* between other messages
C25_Witness ==
    \E k \in 2..(Len(messages) - 1) :
        /\ messages[k].id = <<"stream", 1>>
        /\ messages[k].text = <<"a", ".", " ", "b", ".">>
        /\ messages[k + 1].type = "user"

(***************************************************************************)
(* Properties of the attachments in the encoded history.                   *)
(***************************************************************************)
\* the number of occurrences of pat in s
OccurrencesIn(s, pat) ==
    Cardinality({i \in 0..(Len(s) - Len(pat)) : StartsWithAt(s, pat, i)})

RECURSIVE SumOccurrences(_, _)
\* the number of occurrences of pat in the turns of history
SumOccurrences(history, pat) ==
    IF history = <<>> THEN 0
    ELSE OccurrencesIn(history[1].parts[1], pat) + SumOccurrences(Tail(history), pat)

\* the positions of the agent messages, other than the welcome message and
\* routing messages, that carry an attachment of the given kind
Carriers(msgs, kind) ==
    {i \in 1..Len(msgs) :
        /\ IsRunMessage(msgs[i])
        /\ CASE kind = "chart"      -> msgs[i].chart # Null
              [] kind = "timeline"   -> msgs[i].timeline # Null
              [] kind = "scoreboard" -> msgs[i].scoreboard # Null
              [] kind = "articles"   -> Len(msgs[i].articleCards) > 0}

\* the block that serializes the attachment of the given kind of message m
BlockOf(m, kind) ==
    CASE kind = "chart"      -> formatChartForLog(m.chart)
      [] kind = "timeline"   -> formatTimelineForLog(m.timeline)
      [] kind = "scoreboard" -> formatScoreboardForLog(m.scoreboard)
      [] kind = "articles"   -> formatArticleCardsForLog(m.articleCards)

\* the marker that opens a block of the given kind
MarkerOf(kind) ==
    CASE kind = "chart"      -> ChartMarker
      [] kind = "timeline"   -> TimelineMarker
      [] kind = "scoreboard" -> ScoreboardMarker
      [] kind = "articles"   -> ArticlesHeader

\* every attachment of msgs is in history, and history holds as many blocks of
\* each kind as msgs has attachments of the kind
AttachmentsSerialized(msgs, history) ==
    \A kind \in {"chart", "timeline", "scoreboard", "articles"} :
        /\ \A i \in Carriers(msgs, kind) :
              \E k \in 1..Len(history) : Contains(history[k].parts[1], BlockOf(msgs[i], kind))
        /\ SumOccurrences(history, MarkerOf(kind)) = Cardinality(Carriers(msgs, kind))

\* C26: every chart, timeline, scoreboard and non-empty articleCards
\* attachment of an agent message other than the welcome message and routing
\* messages is serialized into the encoded history exactly once, wherever the
\* message stands in its run of agent bubbles and whatever its text.
C26_AttachmentsNeverDropped ==
    codecPhase \in {"saved", "left"} => AttachmentsSerialized(messages, builtHistory)

(***************************************************************************)
(* Properties of the chat requests in flight.                              *)
(***************************************************************************)
\* the requests whose promise has not settled
InFlight == {i \in 1..Len(requests) : requests[i].state = "pending"}

\* a call of handleSendMessage while isLoading is true changes nothing: no
\* step taken while isLoading is true appends a user message or a request
NoSendWhileLoading ==
    isLoading => /\ Len(requests') = Len(requests)
                 /\ SelectSeq(messages', IsUserMessage) = SelectSeq(messages, IsUserMessage)

\* a step issues at most one request, with the next number
OneRequestPerSubmit ==
    Len(requests') > Len(requests)
        => /\ Len(requests') = Len(requests) + 1
           /\ requests'[Len(requests')].n = sends + 1

\* on the mounted screen at most one request is in flight, and isLoading is
\* true exactly while there is one
OneInFlight ==
    /\ Cardinality(InFlight) <= 1
    /\ mounted => (isLoading <=> InFlight # {})

\* C27: at most one chat request is in flight at any time: while isLoading is
\* true handleSendMessage appends no message and issues no request, each
\* accepted submit issues exactly one request, and isLoading is true exactly
\* while a request is outstanding.
C27_OneRequestInFlight ==
    []OneInFlight /\ [][NoSendWhileLoading /\ OneRequestPerSubmit]_vars

(***************************************************************************)
(* Properties of the end of the streaming loop.                            *)
(***************************************************************************)
\* the interval of the streaming loop is active
StreamTimerActive ==
    \E t \in intervals : t.kind = "stream" /\ t.id = streamingIntervalRef

\* a message of the list is rendered as streaming (isStreaming)
MarkedStreaming ==
    /\ streamingMessage.on
    /\ \E k \in 1..Len(messages) : messages[k].id = streamingMessage.id

\* C28: after the streaming loop has revealed the last sentence of its tail
\* the streaming state is cleared: on the mounted screen a message whose tail
\* is used up is marked as streaming only while a tick of the loop, which
\* sets streamingMessage to null, is still to come.
C28_StreamingStateCleared ==
    (mounted /\ MarkedStreaming /\ streamingMessage.remainingText = <<>>)
        => StreamTimerActive

(***************************************************************************)
(* Properties of the session id of the saves.                              *)
(***************************************************************************)
\* the saves made without a session id
SavesWithoutId == {k \in 1..Len(saveSessionIds) : saveSessionIds[k] = NoSession}

\* once set, currentSessionId never changes, and a save made while it is set
\* uses it
SessionIdKept ==
    currentSessionId # NoSession
        => /\ currentSessionId' = currentSessionId
           /\ Len(saveSessionIds') > Len(saveSessionIds)
                 => saveSessionIds'[Len(saveSessionIds')] = currentSessionId

\* C29: on a screen that started without a session id at most one
\* saveChatHistory call is made without a session id, whatever exits and
\* sidebar navigations are made and however they interleave; once
\* currentSessionId is set from a save result every later save uses it and it
\* never changes.
C29_OneSessionPerScreen ==
    [](Cardinality(SavesWithoutId) <= 1) /\ [][SessionIdKept]_vars
\* the show flags of the navigation state that are true
ShownFlags ==
    {f \in {"showSettings", "showChatHistory", "showConversation"} :
        CASE f = "showSettings"    -> showSettings
          [] f = "showChatHistory" -> showChatHistory
          [] OTHER                 -> showConversation}

\* C30: in the navigation state of App at most one of showSettings,
\* showChatHistory and showConversation is true, and showConversation is true
\* only while selectedBird is non-null, after any sequence of handlers invoked
\* from the displayed screen and of conversation-screen callbacks that fire
\* after an awaited save.
C30_OneScreenFlag ==
    /\ Cardinality(ShownFlags) <= 1
    /\ showConversation => selectedBird # NoBird

\* a callback of a conversation screen has fired after its save while the
\* history screen was displayed, and opened the settings
C30_Witness ==
    /\ lastHandler = [handler |-> "handleNavigateToSettings", from |-> "history",
                      late |-> TRUE]
    /\ showSettings
    /\ awaitedExits # <<>>
====
